---------------------------- MODULE Spec2Model ----------------------------
(***************************************************************************)
(* A model of the relic info extractor (src/gui.py, class DataManagerGUI). *)
(* The Dataset is the record list `data`, the id counter `next_id`, the    *)
(* five used-value sets and the sort state.  Strings are TLA+ strings and  *)
(* the Python string methods the program relies on are operators over     *)
(* them; a record is a function from its keys to its values.              *)
(***************************************************************************)
EXTENDS Integers, Sequences, FiniteSets, TLC

(***************************************************************************)
(* Bounds of the model.                                                    *)
(***************************************************************************)
\* the largest number of rows of an imported file
MaxRows == 3
\* the largest number of operations of a session
MaxSteps == 3
\* the largest number of operations of a session on project files
MaxStoreSteps == 4

(***************************************************************************)
(* Python values.  None is the empty tuple and any other optional value x  *)
(* is <<x>>; a value that is a str in one place and an int in another      *)
(* (the level field) carries its type.                                     *)
(***************************************************************************)
None == <<>>
Some(x) == <<x>>
PyStr(s) == [t |-> "str", v |-> s]
PyInt(n) == [t |-> "int", v |-> n]

SetMin(S) == CHOOSE x \in S : \A y \in S : x <= y
SetMax(S) == CHOOSE x \in S : \A y \in S : x >= y

\* d.get(key, default) of a dict
Get(d, key, default) == IF key \in DOMAIN d THEN d[key] ELSE default
\* the dict d with d[key] = value
Put(d, key, value) ==
    [k \in (DOMAIN d) \cup {key} |-> IF k = key THEN value ELSE d[k]]
\* the dict d after d.pop(key)
Pop(d, key) == [k \in (DOMAIN d) \ {key} |-> d[k]]

(***************************************************************************)
(* Python str methods.                                                     *)
(***************************************************************************)
Ch(s, i) == SubSeq(s, i, i)
\* s[a:] with a >= 0
From(s, a) == SubSeq(s, a + 1, Len(s))
StartsWith(s, p) == Len(p) <= Len(s) /\ SubSeq(s, 1, Len(p)) = p
EndsWith(s, p) == Len(p) <= Len(s) /\ SubSeq(s, Len(s) - Len(p) + 1, Len(s)) = p
\* the characters below U+0100 that str.strip() and str.split() take for
\* whitespace: space, tab, newline, return, form feed, and (written as the
\* characters they are) U+000B, U+001C to U+001F, U+0085 and U+00A0
Whitespace ==
    {" ", "\t", "\n", "\r", "\f", "", "", "", "", "", "", " "}

RECURSIVE LStrip(_)
LStrip(s) ==
    IF s # "" /\ Ch(s, 1) \in Whitespace THEN LStrip(From(s, 1)) ELSE s

RECURSIVE RStrip(_)
RStrip(s) ==
    IF s # "" /\ Ch(s, Len(s)) \in Whitespace
    THEN RStrip(SubSeq(s, 1, Len(s) - 1)) ELSE s

\* a strip that leaves the whitespace at the end
StripLeading(s) == LStrip(s)

\* s.strip()
Strip(s) == RStrip(LStrip(s))

\* s.rstrip(c) for a single character c
RECURSIVE RStripCh(_, _)
RStripCh(s, c) ==
    IF s # "" /\ Ch(s, Len(s)) = c
    THEN RStripCh(SubSeq(s, 1, Len(s) - 1), c) ELSE s

\* sub in s
Contains(s, sub) ==
    \E i \in 0..(Len(s) - Len(sub)) : SubSeq(s, i + 1, i + Len(sub)) = sub

\* s.find(sub): the lowest 0-based index, -1 when absent
Find(s, sub) ==
    LET at == {i \in 0..(Len(s) - Len(sub)) : SubSeq(s, i + 1, i + Len(sub)) = sub}
    IN IF at = {} THEN -1 ELSE SetMin(at)

\* s.replace(old, new), old not empty
RECURSIVE Replace(_, _, _)
Replace(s, old, new) ==
    LET pos == Find(s, old)
    IN IF pos = -1 THEN s
       ELSE SubSeq(s, 1, pos) \o new \o Replace(From(s, pos + Len(old)), old, new)

\* the length of the leading run of non-whitespace characters of s
RECURSIVE WordLen(_)
WordLen(s) ==
    IF s = "" \/ Ch(s, 1) \in Whitespace THEN 0 ELSE 1 + WordLen(From(s, 1))

\* s.split()
RECURSIVE Split(_)
Split(s) ==
    LET t == LStrip(s)
        n == WordLen(t)
    IN IF t = "" THEN <<>> ELSE <<SubSeq(t, 1, n)>> \o Split(From(t, n))

\* s.split(sep) for a single character sep
RECURSIVE SplitOn(_, _)
SplitOn(s, sep) ==
    LET pos == Find(s, sep)
    IN IF pos = -1 THEN <<s>>
       ELSE <<SubSeq(s, 1, pos)>> \o SplitOn(From(s, pos + 1), sep)

\* sep.join(parts)
RECURSIVE Join(_, _)
Join(parts, sep) ==
    IF parts = <<>> THEN ""
    ELSE IF Len(parts) = 1 THEN parts[1]
    ELSE parts[1] \o sep \o Join(Tail(parts), sep)

\* the letters with a capital and a small form, each capital at the place of
\* its small letter: A to Z, U+00C0 to U+00DE (U+00D7 is no letter), and the
\* Greek mu, U+039C and U+03BC, the capital of the micro sign and its small
\* letter
UpperCase == "ABCDEFGHIJKLMNOPQRSTUVWXYZÀÁÂÃÄÅÆÇÈÉÊËÌÍÎÏÐÑÒÓÔÕÖØÙÚÛÜÝÞΜ"
LowerCase == "abcdefghijklmnopqrstuvwxyzàáâãäåæçèéêëìíîïðñòóôõöøùúûüýþμ"
\* c.islower() of one character: the small letters above, and the five of
\* U+0080 to U+00FF whose capital is none of the letters above (U+00AA,
\* U+00B5, U+00BA, U+00DF, U+00FF)
IsLowerCh(c) ==
    \/ \E i \in 1..Len(LowerCase) : Ch(LowerCase, i) = c
    \/ c \in {"ª", "µ", "º", "ß", "ÿ"}
\* c.lower() of one character
LowerCh(c) ==
    IF \E i \in 1..Len(UpperCase) : Ch(UpperCase, i) = c
    THEN Ch(LowerCase, CHOOSE i \in 1..Len(UpperCase) : Ch(UpperCase, i) = c)
    ELSE c
\* c.upper() of one character, a str: the sharp s, U+00DF, becomes "SS" and
\* the micro sign, U+00B5, the Greek capital mu; U+00AA and U+00BA stay as
\* they are. The capital of U+00FF is U+0178, a character no string of the
\* module can hold: upper() of U+00FF is left without a value
UpperCh(c) ==
    CASE \E i \in 1..Len(LowerCase) : Ch(LowerCase, i) = c ->
             Ch(UpperCase, CHOOSE i \in 1..Len(LowerCase) : Ch(LowerCase, i) = c)
      [] c = "ß" -> "SS"
      [] c = "µ" -> "Μ"
      [] c \notin {"ß", "µ", "ÿ"} -> c

\* s.lower()
RECURSIVE Lower(_)
Lower(s) == IF s = "" THEN "" ELSE LowerCh(Ch(s, 1)) \o Lower(From(s, 1))

\* the characters of U+0001 to U+00FF in code point order, in two runs: 1 to
\* 95 and 97 to 255 (the backquote, 96, is left out)
CodeRuns ==
    <<"\t\n\f\r !\"#$%&'()*+,-./0123456789:;<=>?@ABCDEFGHIJKLMNOPQRSTUVWXYZ[\\]^_",
      "abcdefghijklmnopqrstuvwxyz{|}~ ¡¢£¤¥¦§¨©ª«¬­®¯°±²³´µ¶·¸¹º»¼½¾¿ÀÁÂÃÄÅÆÇÈÉÊËÌÍÎÏÐÑÒÓÔÕÖ×ØÙÚÛÜÝÞßàáâãäåæçèéêëìíîïðñòóôõö÷øùúûüýþÿ">>
\* ord(c), of a character of CodeRuns or of the Greek mu
Ord(c) ==
    IF c = "Μ" THEN 924
    ELSE IF c = "μ" THEN 956
    ELSE IF \E i \in 1..Len(CodeRuns[1]) : Ch(CodeRuns[1], i) = c
    THEN CHOOSE i \in 1..Len(CodeRuns[1]) : Ch(CodeRuns[1], i) = c
    ELSE 96 + (CHOOSE i \in 1..Len(CodeRuns[2]) : Ch(CodeRuns[2], i) = c)

\* a < b for two str, by code points
RECURSIVE StrLess(_, _)
StrLess(a, b) ==
    IF b = "" THEN FALSE
    ELSE IF a = "" THEN TRUE
    ELSE IF Ch(a, 1) = Ch(b, 1) THEN StrLess(From(a, 1), From(b, 1))
    ELSE Ord(Ch(a, 1)) < Ord(Ch(b, 1))

Digits == "0123456789"
IsDigit(c) == \E i \in 1..10 : Ch(Digits, i) = c

\* str(n) of an int
RECURSIVE IntToStr(_)
IntToStr(n) ==
    IF n < 0 THEN "-" \o IntToStr(0 - n)
    ELSE IF n < 10 THEN Ch(Digits, n + 1)
    ELSE IntToStr(n \div 10) \o Ch(Digits, (n % 10) + 1)

\* the value of a run of digits and single underscores, read left to right
RECURSIVE DigitsVal(_, _)
DigitsVal(s, acc) ==
    IF s = "" THEN acc
    ELSE IF Ch(s, 1) = "_" THEN DigitsVal(From(s, 1), acc)
    ELSE DigitsVal(From(s, 1), 10 * acc + (CHOOSE i \in 0..9 : Ch(Digits, i + 1) = Ch(s, 1)))

\* int(s) of a str: [ok |-> it parses, v |-> its value]; a failure is the
\* ValueError of the code.  int() skips the whitespace around the number but
\* does not take U+001C to U+001F for whitespace
ParseInt(s) ==
    LET t == Strip(s)
        signed == t # "" /\ Ch(t, 1) \in {"+", "-"}
        body == IF signed THEN From(t, 1) ELSE t
        wellFormed ==
            /\ \A i \in 1..Len(s) : Ch(s, i) \notin {"", "", "", ""}
            /\ body # ""
            /\ IsDigit(Ch(body, 1))
            /\ IsDigit(Ch(body, Len(body)))
            /\ \A i \in 1..Len(body) : IsDigit(Ch(body, i)) \/ Ch(body, i) = "_"
            /\ ~Contains(body, "__")
    IN IF ~wellFormed THEN [ok |-> FALSE, v |-> 0]
       ELSE [ok |-> TRUE,
             v |-> IF signed /\ Ch(t, 1) = "-" THEN 0 - DigitsVal(body, 0)
                   ELSE DigitsVal(body, 0)]

\* sorted(S) of a set of int
RECURSIVE SortedInts(_)
SortedInts(S) ==
    IF S = {} THEN <<>> ELSE <<SetMin(S)>> \o SortedInts(S \ {SetMin(S)})

\* the elements of a list, as a set
Range(q) == {q[i] : i \in DOMAIN q}

(***************************************************************************)
(* RecordIngestor: process_csv_row.  A row is the dict csv.DictReader       *)
(* yields: a function from the header's columns to cells, a cell being     *)
(* Some(text) or, for a column a short row does not reach, None.           *)
(***************************************************************************)
NightfarerNames ==
    <<"Wylder", "Guardian", "Ironeye", "Duchess",
      "Raider", "Revenant", "Recluse", "Executor">>
GameIdColumns ==
    <<"ID", "passiveSpEffectId_1", "passiveSpEffectId_2", "passiveSpEffectId_3">>
AllowColumns ==
    <<"allowWylder", "allowGuardian", "allowIroneye", "allowDuchess",
      "allowRaider", "allowRevenant", "allowRecluse", "allowExecutor">>

\* row.get(col, '')
Cell(row, col) == Get(row, col, Some(""))

str_to_bool(cell) ==
    IF cell = None THEN FALSE
    ELSE Lower(cell[1]) \in {"true", "1", "yes", "on", "t", "y"}

\* the ints the loop over the four id columns appends, in column order
RECURSIVE CollectGameIds(_, _)
CollectGameIds(row, cols) ==
    IF cols = <<>> THEN <<>>
    ELSE LET value == Strip(Cell(row, Head(cols))[1])
             n == ParseInt(value)
             kept == IF value # "" /\ StrLess("0", value) /\ n.ok
                     THEN <<n.v>> ELSE <<>>
         IN kept \o CollectGameIds(row, Tail(cols))

\* ', '.join(map(str, sorted ids)), '' for none
FormatGameIds(S) ==
    Join([k \in 1..Cardinality(S) |-> IntToStr(SortedInts(S)[k])], ", ")

\* the names of the allow columns that are true, in column order
RECURSIVE NightfarerValues(_, _)
NightfarerValues(row, k) ==
    IF k > Len(AllowColumns) THEN <<>>
    ELSE (IF str_to_bool(Cell(row, AllowColumns[k]))
          THEN <<NightfarerNames[k]>> ELSE <<>>)
         \o NightfarerValues(row, k + 1)

\* [kind |-> "record", rec |-> the record] for an accepted row,
\* [kind |-> "skip"] for the None the code returns,
\* [kind |-> "raise"] for the AttributeError of None.strip()
process_csv_row(row, nid) ==
    LET name == Strip(IF Cell(row, "Name") = None THEN "None"
                      ELSE Cell(row, "Name")[1])
        stripped ==
            IF StartsWith(name, "Character Relic: ") THEN Some(From(name, 17))
            ELSE IF StartsWith(name, "Relic: ") THEN Some(From(name, 7))
            ELSE None
        nfs == NightfarerValues(row, 1)
        attach == Strip(Cell(row, "attachFilterParamId")[1])
    IN IF \E i \in 1..4 : Cell(row, GameIdColumns[i]) = None
       THEN [kind |-> "raise"]
       ELSE IF stripped = None THEN [kind |-> "skip"]
       ELSE IF Cell(row, "isNumericEffect") = None
               \/ Cell(row, "attachFilterParamId") = None
       THEN [kind |-> "raise"]
       ELSE [kind |-> "record",
             rec |-> [id |-> nid,
                      gameIds |-> FormatGameIds(Range(CollectGameIds(row, GameIdColumns))),
                      name |-> stripped[1],
                      debuff |-> str_to_bool(Cell(row, "isDebuff")),
                      deep |-> (Strip(Cell(row, "isNumericEffect")[1]) = "0"),
                      stacks |-> "",
                      nightfarer |-> IF Len(nfs) = 1 THEN nfs[1] ELSE "",
                      level_group_id |->
                          IF attach # "" /\ ParseInt(attach).ok
                          THEN ParseInt(attach).v ELSE 0,
                      level_group |-> "",
                      category |-> "",
                      display_group |-> "",
                      level |-> PyStr("")]]

(***************************************************************************)
(* NameStandardizer.                                                       *)
(***************************************************************************)
Bracketed(nf) == "[" \o nf \o "] "

\* the loop over nightfarers_to_check: the first pattern that matches wins
RECURSIVE FactionRewrite(_, _)
FactionRewrite(name, nfs) ==
    IF nfs = <<>> THEN name
    ELSE LET nf == Head(nfs)
         IN IF nf # "" /\ StartsWith(name, Bracketed(nf)) THEN name
            ELSE IF StartsWith(name, nf \o ": ")
            THEN Bracketed(nf) \o From(name, Len(nf) + 2)
            ELSE IF StartsWith(name, nf \o " ")
            THEN Bracketed(nf) \o From(name, Len(nf) + 1)
            ELSE FactionRewrite(name, Tail(nfs))

\* nightfarer is "" where the code passes None or an empty str: both are falsy
standardize_name(name, nightfarer) ==
    LET nightfarers_to_check ==
            IF nightfarer # "" THEN <<nightfarer>> ELSE NightfarerNames
        rewritten == FactionRewrite(name, nightfarers_to_check)
        prefixed ==
            IF nightfarer # ""
               /\ ~\E i \in 1..Len(nightfarers_to_check) :
                      StartsWith(rewritten, Bracketed(nightfarers_to_check[i]))
            THEN Bracketed(nightfarer) \o rewritten
            ELSE rewritten
    IN Replace(prefixed, "- ", ", ")

HasNightfarerFormat(name) ==
    \E i \in 1..Len(NightfarerNames) : StartsWith(name, Bracketed(NightfarerNames[i]))

\* the first pass of standardize_names_silent, on one record
StandardizeFirst(item) ==
    LET nightfarer == Strip(Get(item, "nightfarer", ""))
        name == Strip(Get(item, "name", ""))
    IN IF nightfarer # "" /\ name # ""
       THEN Put(item, "name", standardize_name(name, nightfarer))
       ELSE item

\* the second pass of standardize_names_silent, on one record
StandardizeSecond(item) ==
    LET name == Strip(Get(item, "name", ""))
    IN IF name # "" /\ ~HasNightfarerFormat(name)
       THEN Put(item, "name", standardize_name(name, ""))
       ELSE item

\* the two passes, each over the whole list
StandardizePasses(items) ==
    LET first == [i \in DOMAIN items |-> StandardizeFirst(items[i])]
    IN [i \in DOMAIN items |-> StandardizeSecond(first[i])]

(***************************************************************************)
(* DuplicateMerger.  The records being merged are Python objects mutated   *)
(* in place: a merge state m holds them by their position in the list the  *)
(* merge started from (m.items), the list items_to_remove as positions     *)
(* (m.rem), and for each removed record the record it was merged into      *)
(* (m.parent, 0 for a record not removed).  `item in list` compares dicts  *)
(* by their current contents, as Python does.                              *)
(***************************************************************************)
\* parse_game_ids: the set of ints, empty when any piece is not an int
parse_game_ids(game_ids_str) ==
    LET parts == SplitOn(game_ids_str, ",")
        kept == {i \in 1..Len(parts) : Strip(parts[i]) # ""}
    IN IF game_ids_str = "" THEN {}
       ELSE IF \E i \in kept : ~ParseInt(Strip(parts[i])).ok THEN {}
       ELSE {ParseInt(Strip(parts[i])).v : i \in kept}

remove_nightfarer_prefix_for_grouping(name) ==
    IF HasNightfarerFormat(name)
    THEN LET k == SetMin({i \in 1..Len(NightfarerNames) :
                             StartsWith(name, Bracketed(NightfarerNames[i]))})
         IN From(name, Len(NightfarerNames[k]) + 3)
    ELSE name

RECURSIVE is_word_subset(_, _)
is_word_subset(shorter_words, longer_words) ==
    IF shorter_words = <<>> THEN TRUE
    ELSE IF longer_words = <<>> THEN FALSE
    ELSE IF Head(longer_words) = Head(shorter_words)
    THEN is_word_subset(Tail(shorter_words), Tail(longer_words))
    ELSE is_word_subset(shorter_words, Tail(longer_words))

\* the while loop of has_single_word_difference
RECURSIVE SingleWordLoop(_, _, _)
SingleWordLoop(shorter, longer, extra_words) ==
    IF shorter = <<>> \/ longer = <<>>
    THEN shorter = <<>> /\ extra_words <= 1
    ELSE IF Head(shorter) = Head(longer)
    THEN SingleWordLoop(Tail(shorter), Tail(longer), extra_words)
    ELSE IF extra_words + 1 > 1 THEN FALSE
    ELSE SingleWordLoop(shorter, Tail(longer), extra_words + 1)

has_single_word_difference(shorter, longer) ==
    IF Len(longer) # Len(shorter) + 1 THEN FALSE
    ELSE SingleWordLoop(shorter, longer, 0)

are_word_variants(name1, name2) ==
    LET words1 == Split(name1)
        words2 == Split(name2)
    IN IF Len(words1) > Len(words2) + 1 THEN is_word_subset(words2, words1)
       ELSE IF Len(words2) > Len(words1) + 1 THEN is_word_subset(words1, words2)
       ELSE IF Len(words1) - Len(words2) \in {1, -1}
       THEN IF Len(words1) < Len(words2)
            THEN has_single_word_difference(words1, words2)
            ELSE has_single_word_difference(words2, words1)
       ELSE FALSE

\* len(a) > len(b) * 1.5 and a.startswith(b)
MuchLongerWithPrefix(a, b) == 2 * Len(a) > 3 * Len(b) /\ StartsWith(a, b)

\* the tests of is_truncated_variant on the names without their prefixes
TruncatedVariantClean(clean_name1, clean_name2) ==
    \/ clean_name1 = clean_name2
    \/ StartsWith(clean_name1, clean_name2 \o " ")
    \/ StartsWith(clean_name2, clean_name1 \o " ")
    \/ MuchLongerWithPrefix(clean_name1, clean_name2)
    \/ MuchLongerWithPrefix(clean_name2, clean_name1)
    \/ are_word_variants(clean_name1, clean_name2)

is_truncated_variant(name1, name2) ==
    TruncatedVariantClean(remove_nightfarer_prefix_for_grouping(name1),
                          remove_nightfarer_prefix_for_grouping(name2))

share_game_ids(item1, item2) ==
    parse_game_ids(Get(item1, "gameIds", ""))
        \cap parse_game_ids(Get(item2, "gameIds", "")) # {}

\* item in items_to_remove
InRemoved(m, i) == \E k \in 1..Len(m.rem) : m.items[m.rem[k]] = m.items[i]

\* a < b for two sort keys of one type
KeyLess(a, b) ==
    IF a.t = "int" THEN a.v < b.v
    ELSE IF a.t = "bool" THEN ~a.v /\ b.v
    ELSE StrLess(a.v, b.v)

\* list.sort(key=..., reverse=...) on a list of positions, keys[position] the
\* key: stable in both directions
RECURSIVE InsertSorted(_, _, _, _)
InsertSorted(sorted, x, keys, reverse) ==
    IF sorted = <<>> THEN <<x>>
    ELSE IF (IF reverse THEN KeyLess(keys[Head(sorted)], keys[x])
             ELSE KeyLess(keys[x], keys[Head(sorted)]))
    THEN <<x>> \o sorted
    ELSE <<Head(sorted)>> \o InsertSorted(Tail(sorted), x, keys, reverse)

RECURSIVE SortPositions(_, _, _)
SortPositions(q, keys, reverse) ==
    IF q = <<>> THEN <<>>
    ELSE InsertSorted(SortPositions(SubSeq(q, 1, Len(q) - 1), keys, reverse),
                      q[Len(q)], keys, reverse)

\* the union of the gameIds of the records at the positions q
RECURSIVE AllGameIds(_, _)
AllGameIds(items, q) ==
    IF q = <<>> THEN {}
    ELSE parse_game_ids(Strip(Get(items[Head(q)], "gameIds", "")))
         \cup AllGameIds(items, Tail(q))

\* the merge state with the record at keep given gameIds all_game_ids, when
\* there are any, and the records at removed marked for removal
MergedInto(m, items, keep, removed, all_game_ids) ==
    [items |-> IF all_game_ids # {}
               THEN [items EXCEPT ![keep] = Put(@, "gameIds", FormatGameIds(all_game_ids))]
               ELSE items,
     rem |-> m.rem \o removed,
     parent |-> [i \in DOMAIN m.parent |->
                    IF i \in Range(removed) THEN keep ELSE m.parent[i]]]

\* merge_items on the group sorted by id
MergeSorted(m, sorted) ==
    MergedInto(m, m.items, sorted[1], Tail(sorted), AllGameIds(m.items, sorted))

\* a merge that keeps the record of the group with the highest id
merge_items_keeping_last(m, group) ==
    MergeSorted(m, SortPositions(group,
                                 [i \in Range(group) |-> PyInt(Get(m.items[i], "id", 0))],
                                 TRUE))

merge_items(m, group) ==
    MergeSorted(m, SortPositions(group,
                                 [i \in Range(group) |-> PyInt(Get(m.items[i], "id", 0))],
                                 FALSE))

\* a merge that leaves the name of keep_item as it is
WithKeptName(items, keep_item, name1, name2) == items

\* the records with the one at keep_item named name2 when name2 is the longer
WithLongerName(items, keep_item, name1, name2) ==
    IF Len(name2) > Len(name1) THEN [items EXCEPT ![keep_item] = Put(@, "name", name2)]
    ELSE items

\* a union that forgets the gameIds of item2
PairGameIdsOfFirst(items, item1, item2) ==
    parse_game_ids(Get(items[item1], "gameIds", ""))

\* all_game_ids of merge_truncated_pair
PairGameIds(items, item1, item2) ==
    parse_game_ids(Get(items[item1], "gameIds", ""))
        \cup parse_game_ids(Get(items[item2], "gameIds", ""))

\* merge_truncated_pair once keep_item and remove_item are chosen
MergePair(m, item1, item2, keep_item, remove_item) ==
    MergedInto(m,
               WithLongerName(m.items, keep_item,
                              Strip(Get(m.items[item1], "name", "")),
                              Strip(Get(m.items[item2], "name", ""))),
               keep_item, <<remove_item>>, PairGameIds(m.items, item1, item2))

\* a merge that keeps item2 whatever the ids
merge_truncated_pair_keeping_second(m, item1, item2) ==
    MergePair(m, item1, item2, item2, item1)

merge_truncated_pair(m, item1, item2) ==
    IF Get(m.items[item1], "id", 0) < Get(m.items[item2], "id", 0)
    THEN MergePair(m, item1, item2, item1, item2)
    ELSE MergePair(m, item1, item2, item2, item1)

\* q without its repeated elements, first occurrences kept in order
RECURSIVE Dedup(_)
Dedup(q) ==
    IF q = <<>> THEN <<>>
    ELSE LET front == Dedup(SubSeq(q, 1, Len(q) - 1))
         IN IF q[Len(q)] \in Range(front) THEN front ELSE Append(front, q[Len(q)])

\* the positions of q, in order, whose element satisfies the set S
RECURSIVE Keep(_, _)
Keep(q, S) ==
    IF q = <<>> THEN <<>>
    ELSE (IF Head(q) \in S THEN <<Head(q)>> ELSE <<>>) \o Keep(Tail(q), S)

\* the lists of a dict of lists keyed by key[position], in insertion order,
\* built from the positions q
GroupsBy(q, key) ==
    LET keys == Dedup([k \in 1..Len(q) |-> key[q[k]]])
    IN [g \in 1..Len(keys) |-> Keep(q, {i \in Range(q) : key[i] = keys[g]})]

\* the first pass of merge_duplicate_names: every group of two or more
RECURSIVE MergeExact(_, _)
MergeExact(m, groups) ==
    IF groups = <<>> THEN m
    ELSE MergeExact(IF Len(Head(groups)) > 1 THEN merge_items(m, Head(groups)) ELSE m,
                    Tail(groups))

\* the pairs (i, j), i < j, of the positions 1..n of a group, in loop order
RECURSIVE PairsFrom(_, _, _)
PairsFrom(i, j, n) ==
    IF i >= n THEN <<>>
    ELSE IF j > n THEN PairsFrom(i + 1, i + 2, n)
    ELSE <<(<<i, j>>)>> \o PairsFrom(i, j + 1, n)

\* the body of the pair loop of merge_truncated_names over one group
RECURSIVE MergePairs(_, _, _)
MergePairs(m, group_items, pairs) ==
    IF pairs = <<>> THEN m
    ELSE LET item1 == group_items[Head(pairs)[1]]
             item2 == group_items[Head(pairs)[2]]
             name1 == Strip(Get(m.items[item1], "name", ""))
             name2 == Strip(Get(m.items[item2], "name", ""))
             merged ==
                 IF /\ ~InRemoved(m, item1)
                    /\ ~InRemoved(m, item2)
                    /\ is_truncated_variant(name1, name2)
                    /\ share_game_ids(m.items[item1], m.items[item2])
                 THEN merge_truncated_pair(m, item1, item2)
                 ELSE m
         IN MergePairs(merged, group_items, Tail(pairs))

RECURSIVE MergeGroups(_, _)
MergeGroups(m, groups) ==
    IF groups = <<>> THEN m
    ELSE MergeGroups(
             IF Len(Head(groups)) >= 2
             THEN MergePairs(m, Head(groups), PairsFrom(1, 2, Len(Head(groups))))
             ELSE m,
             Tail(groups))

\* the grouping key of merge_truncated_names: the first two words, None when
\* the name has fewer than two
TruncationKey(item) ==
    LET words == Split(remove_nightfarer_prefix_for_grouping(
                           Strip(Get(item, "name", ""))))
    IN IF Len(words) >= 2 THEN Some(words[1] \o " " \o words[2]) ELSE None

\* merge_truncated_names: the groups of the positions that have a grouping key
merge_truncated_names(m, items) ==
    MergeGroups(m, GroupsBy(Keep(items, {i \in Range(items) :
                                            TruncationKey(m.items[i]) # None}),
                            [i \in Range(items) |-> TruncationKey(m.items[i])]))

\* self.data.remove(x) for each x of items_to_remove that is in self.data;
\* live holds the positions still in self.data
RECURSIVE RemoveMarked(_, _, _)
RemoveMarked(items, live, rem) ==
    IF rem = <<>> THEN live
    ELSE LET hit == {k \in 1..Len(live) : items[live[k]] = items[Head(rem)]}
             first == SetMin(hit)
         IN RemoveMarked(items,
                         IF hit = {} THEN live
                         ELSE SubSeq(live, 1, first - 1) \o SubSeq(live, first + 1, Len(live)),
                         Tail(rem))

\* the positions of a list
Positions(items) == [i \in 1..Len(items) |-> i]

\* the first pass of merge_duplicate_names on the positions of the records
\* with a name
MergeNamed(items, named) ==
    MergeExact([items |-> items, rem |-> <<>>, parent |-> [i \in 1..Len(items) |-> 0]],
               GroupsBy(named, [i \in Range(named) |-> Strip(Get(items[i], "name", ""))]))

\* the second pass, on remaining_items
MergeRemaining(m1) ==
    merge_truncated_names(m1, Keep(Positions(m1.items),
                                   {i \in 1..Len(m1.items) : ~InRemoved(m1, i)}))

\* the merge state with the positions the removal leaves in self.data
Removed(m2) ==
    [m |-> m2, live |-> RemoveMarked(m2.items, Positions(m2.items), m2.rem)]

\* the merge state merge_duplicate_names ends in and the positions it leaves
\* in self.data
MergeRun(items) ==
    Removed(MergeRemaining(MergeNamed(items,
        Keep(Positions(items),
             {i \in 1..Len(items) : Strip(Get(items[i], "name", "")) # ""}))))

\* self.data of a run
MergedData(merge_run) ==
    [k \in 1..Len(merge_run.live) |-> merge_run.m.items[merge_run.live[k]]]

\* self.data after merge_duplicate_names
merge_duplicate_names(items) == MergedData(MergeRun(items))

(***************************************************************************)
(* GroupAutofiller: prefill_auto_fields and the text functions under it.   *)
(***************************************************************************)
\* min(names, key=len): the first of the shortest names
Shortest(names) ==
    names[SetMin({k \in 1..Len(names) :
                     \A j \in 1..Len(names) : Len(names[k]) <= Len(names[j])})]

Boundary == {" ", "-", ","}

find_common_prefix(names) ==
    IF names = <<>> THEN ""
    ELSE LET shortest == Shortest(names)
             agree == {n \in 0..Len(shortest) :
                          \A i \in 1..n : \A k \in 1..Len(names) :
                              Ch(names[k], i) = Ch(shortest, i)}
             common_prefix == SubSeq(shortest, 1, SetMax(agree))
         IN IF Len(common_prefix) > 3
               /\ Ch(common_prefix, Len(common_prefix)) \in Boundary
            THEN RStrip(common_prefix) ELSE ""

find_common_suffix(names) ==
    IF names = <<>> THEN ""
    ELSE LET shortest == Shortest(names)
             agree == {n \in 0..Len(shortest) :
                          \A i \in 1..n : \A k \in 1..Len(names) :
                              Ch(names[k], Len(names[k]) + 1 - i)
                                  = Ch(shortest, Len(shortest) + 1 - i)}
             n == SetMax(agree)
             common_suffix == SubSeq(shortest, Len(shortest) - n + 1, Len(shortest))
         IN IF Len(common_suffix) > 3 /\ Ch(common_suffix, 1) \in Boundary
            THEN LStrip(common_suffix) ELSE ""

find_common_words(names) ==
    IF names = <<>> THEN ""
    ELSE LET word_lists == [k \in 1..Len(names) |-> Split(names[k])]
             min_words == SetMin({Len(word_lists[k]) : k \in 1..Len(names)})
             agree == {n \in 0..min_words :
                          \A i \in 1..n : \A k \in 1..Len(names) :
                              word_lists[k][i] = word_lists[1][i]}
         IN Join(SubSeq(word_lists[1], 1, SetMax(agree)), " ")

\* Counter(case_versions).most_common(1)[0][0]: the most frequent element, the
\* first of them in the list when several are
MostCommon(case_versions) ==
    LET count(v) == Cardinality({k \in 1..Len(case_versions) : case_versions[k] = v})
        best == SetMin({k \in 1..Len(case_versions) :
                           \A j \in 1..Len(case_versions) :
                               count(case_versions[k]) >= count(case_versions[j])})
    IN case_versions[best]

\* the (i, j) for which shortest[i:j] has three characters or more, is in
\* every name whatever the case, and ends at a boundary or has ten or more
QualifiedSpans(shortest, lowered) ==
    {ij \in (0..Len(shortest)) \X (0..Len(shortest)) :
        /\ ij[2] >= ij[1] + 3
        /\ (Ch(shortest, ij[2]) \in Boundary \/ ij[2] - ij[1] >= 10)
        /\ \A k \in 1..Len(lowered) :
               Contains(lowered[k], Lower(SubSeq(shortest, ij[1] + 1, ij[2])))}

\* the first of the longest of the spans: the loops replace longest_common
\* only by a longer substring
FirstLongest(qualified, longest) ==
    SetMin({ij[1] : ij \in {x \in qualified : x[2] - x[1] = longest}})

\* the substring as the names spell it, found at its first place in each
CaseVersions(names, lowered, longest_common) ==
    [k \in 1..Len(names) |->
        SubSeq(names[k], Find(lowered[k], Lower(longest_common)) + 1,
               Find(lowered[k], Lower(longest_common)) + Len(longest_common))]

\* the clean-up of longest_common_original_case: a trailing "+" goes
TrimPlus(original_case) ==
    IF EndsWith(RStrip(original_case), "+")
    THEN RStrip(RStripCh(RStrip(original_case), "+"))
    ELSE original_case

\* ... and a lower-case first letter is capitalized, the text stripped
CapitalizeFirst(trimmed) ==
    IF Strip(trimmed) # "" /\ IsLowerCh(Ch(Strip(trimmed), 1))
    THEN UpperCh(Ch(Strip(trimmed), 1)) \o From(Strip(trimmed), 1)
    ELSE trimmed

LongestCommonAt(names, shortest, lowered, qualified, longest) ==
    RStrip(CapitalizeFirst(TrimPlus(MostCommon(
        CaseVersions(names, lowered,
            SubSeq(shortest, FirstLongest(qualified, longest) + 1,
                   FirstLongest(qualified, longest) + longest))))))

LongestCommonIn(names, shortest, lowered, qualified) ==
    IF qualified = {} THEN ""
    ELSE LongestCommonAt(names, shortest, lowered, qualified,
                         SetMax({ij[2] - ij[1] : ij \in qualified}))

LongestCommonOf(names, shortest, lowered) ==
    IF Len(shortest) < 3 THEN ""
    ELSE LongestCommonIn(names, shortest, lowered, QualifiedSpans(shortest, lowered))

find_longest_common_substring(names) ==
    IF Len(names) < 2 THEN ""
    ELSE LongestCommonOf(names, Shortest(names),
                         [k \in 1..Len(names) |-> Lower(names[k])])

\* max(candidates, key=len): the first of the longest
Longest(candidates) ==
    candidates[SetMin({k \in 1..Len(candidates) :
                          \A j \in 1..Len(candidates) :
                              Len(candidates[k]) >= Len(candidates[j])})]

\* q without the elements for which drop[position] holds
RECURSIVE Without(_, _, _)
Without(q, drop, k) ==
    IF k > Len(q) THEN <<>>
    ELSE (IF drop[k] THEN <<>> ELSE <<q[k]>>) \o Without(q, drop, k + 1)

\* result of find_common_text with its first letter capitalized
CommonTextResult(result) ==
    IF IsLowerCh(Ch(result, 1)) THEN UpperCh(Ch(result, 1)) \o From(result, 1)
    ELSE result

\* the candidates that are not blank, and the longest of them
CommonTextAmong(candidates) ==
    IF candidates = <<>> THEN "" ELSE CommonTextResult(Strip(Longest(candidates)))

CommonTextFrom(all) ==
    CommonTextAmong(Without(all, [k \in 1..Len(all) |-> Strip(all[k]) = ""], 1))

CommonTextOf(clean_names) ==
    IF Len(clean_names) < 2 THEN ""
    ELSE CommonTextFrom(<<find_common_prefix(clean_names),
                          find_common_suffix(clean_names),
                          find_common_words(clean_names),
                          find_longest_common_substring(clean_names)>>)

find_common_text(names) ==
    IF Len(names) < 2 THEN ""
    ELSE CommonTextOf(
             Without([k \in 1..Len(names) |->
                         Strip(remove_nightfarer_prefix_for_grouping(names[k]))],
                     [k \in 1..Len(names) |-> Strip(names[k]) = ""], 1))

\* the length of the run of digits name ends with
RECURSIVE TrailingDigits(_)
TrailingDigits(name) ==
    IF name # "" /\ IsDigit(Ch(name, Len(name)))
    THEN 1 + TrailingDigits(SubSeq(name, 1, Len(name) - 1)) ELSE 0

\* re.search(r' \+(\d+)$', name): Some(the int) or None; $ matches at the
\* end of name and just before a newline that ends it (text: name up to there)
extract_level_from_name(name) ==
    LET text == IF EndsWith(name, "\n") THEN SubSeq(name, 1, Len(name) - 1) ELSE name
        d == TrailingDigits(text)
    IN IF d > 0 /\ EndsWith(SubSeq(text, 1, Len(text) - d), " +")
       THEN Some(DigitsVal(SubSeq(text, Len(text) - d + 1, Len(text)), 0))
       ELSE None

\* levels that take the extracted number in a mixed group too
PrefilledLevelUnshifted(items, i) ==
    LET level(k) == extract_level_from_name(Strip(Get(items[k], "name", "")))
        has_no_number == \E k \in 1..Len(items) : level(k) = None
        has_numbers == \E k \in 1..Len(items) : level(k) # None
    IN IF has_no_number /\ has_numbers
       THEN Put(items[i], "level",
                IF level(i) = None THEN PyInt(1) ELSE PyInt(level(i)[1]))
       ELSE IF has_numbers THEN Put(items[i], "level", PyInt(level(i)[1]))
       ELSE items[i]

\* the level prefill_levels_for_level_group leaves in the record at position i
\* of a level group (items, two or more records)
PrefilledLevel(items, i) ==
    LET level(k) == extract_level_from_name(Strip(Get(items[k], "name", "")))
        has_no_number == \E k \in 1..Len(items) : level(k) = None
        has_numbers == \E k \in 1..Len(items) : level(k) # None
    IN IF has_no_number /\ has_numbers
       THEN Put(items[i], "level",
                IF level(i) = None THEN PyInt(1) ELSE PyInt(level(i)[1] + 1))
       ELSE IF has_numbers THEN Put(items[i], "level", PyInt(level(i)[1]))
       ELSE items[i]

\* a first pass that fills display_group from a faction the record carries
\* and leaves the name unread
PrefillFirstByNightfarer(item) ==
    LET grouped ==
            IF Get(item, "nightfarer", "") # ""
            THEN Put(item, "display_group", item["nightfarer"])
            ELSE item
    IN IF Get(grouped, "debuff", FALSE) /\ Strip(Get(grouped, "category", "")) = ""
       THEN Put(grouped, "category", "Debuff")
       ELSE grouped

\* the first pass of prefill_auto_fields, on one record
PrefillFirst(item) ==
    LET name == Strip(Get(item, "name", ""))
        end_bracket == Find(name, "]")
        nightfarer_name == Strip(SubSeq(name, 2, end_bracket))
        grouped ==
            IF StartsWith(name, "[") /\ end_bracket > 1 /\ nightfarer_name # ""
            THEN Put(item, "display_group", nightfarer_name)
            ELSE item
    IN IF Get(grouped, "debuff", FALSE) /\ Strip(Get(grouped, "category", "")) = ""
       THEN Put(grouped, "category", "Debuff")
       ELSE grouped

\* items_by_level_group_id[g], as positions of the list
LevelGroupPositions(first, g) ==
    Keep([k \in 1..Len(first) |-> k],
         {k \in 1..Len(first) : Get(first[k], "level_group_id", 0) = g})

\* the records of a level group with level_group set to the common text
LabelledWith(members, common_text) ==
    [k \in 1..Len(members) |->
        IF common_text # "" THEN Put(members[k], "level_group", common_text)
        ELSE members[k]]

\* prefill_levels_for_level_group on every record of the group
LevelledGroup(labelled) == [k \in 1..Len(labelled) |-> PrefilledLevel(labelled, k)]

\* the body of the loop over items_by_level_group_id, on one group
ProcessedGroup(members) ==
    IF Len(members) > 1
    THEN LevelledGroup(LabelledWith(members,
             find_common_text([k \in 1..Len(members) |-> Get(members[k], "name", "")])))
    ELSE members

\* the groups as the second pass leaves them, by level_group_id
ProcessedGroups(first) ==
    [g \in {Get(first[k], "level_group_id", 0) : k \in 1..Len(first)} |->
        ProcessedGroup([k \in 1..Len(LevelGroupPositions(first, g)) |->
                           first[LevelGroupPositions(first, g)[k]]])]

\* the list after the second pass: each record taken from its group
PrefillSecond(first, groups) ==
    [i \in 1..Len(first) |->
        groups[Get(first[i], "level_group_id", 0)]
              [CHOOSE k \in 1..Len(LevelGroupPositions(first,
                                       Get(first[i], "level_group_id", 0))) :
                   LevelGroupPositions(first, Get(first[i], "level_group_id", 0))[k] = i]]

PrefillPasses(first) == PrefillSecond(first, ProcessedGroups(first))

prefill_auto_fields(items) ==
    PrefillPasses([i \in 1..Len(items) |-> PrefillFirst(items[i])])

(***************************************************************************)
(* The Dataset: the fields of DataManagerGUI that hold the session's data. *)
(* The operations below are functions from the Dataset before (cur) to the *)
(* Dataset after; the actions apply them to the variables.                 *)
(***************************************************************************)
(***************************************************************************)
(* import_csv.  A file is [rows |-> the rows the reader yields, error |->  *)
(* None, or Some(k) when open() or the decoder raises once k rows have     *)
(* been yielded (k = 0: the file cannot be opened, or its first block      *)
(* cannot be decoded)].                                                    *)
(***************************************************************************)
\* a loop body that leaves next_id as it is when the row is skipped
AfterRowAcceptedOnly(acc, processed_row) ==
    [data |-> IF processed_row.kind = "record"
              THEN Append(acc.data, processed_row.rec) ELSE acc.data,
     next_id |-> acc.next_id + (IF processed_row.kind = "record" THEN 1 ELSE 0),
     imported_count |-> acc.imported_count
         + (IF processed_row.kind = "record" THEN 1 ELSE 0),
     skipped_count |-> acc.skipped_count
         + (IF processed_row.kind = "record" THEN 0 ELSE 1),
     raised |-> FALSE]

\* a loop body that never advances next_id
AfterRowKeepingCounter(acc, processed_row) ==
    [data |-> IF processed_row.kind = "record"
              THEN Append(acc.data, processed_row.rec) ELSE acc.data,
     next_id |-> acc.next_id,
     imported_count |-> acc.imported_count
         + (IF processed_row.kind = "record" THEN 1 ELSE 0),
     skipped_count |-> acc.skipped_count
         + (IF processed_row.kind = "record" THEN 0 ELSE 1),
     raised |-> FALSE]

\* the body of the loop over the reader once process_csv_row has returned
AfterRow(acc, processed_row) ==
    [data |-> IF processed_row.kind = "record"
              THEN Append(acc.data, processed_row.rec) ELSE acc.data,
     next_id |-> acc.next_id + 1,
     imported_count |-> acc.imported_count
         + (IF processed_row.kind = "record" THEN 1 ELSE 0),
     skipped_count |-> acc.skipped_count
         + (IF processed_row.kind = "record" THEN 0 ELSE 1),
     raised |-> FALSE]

\* the loop over the reader from row k on; acc.raised: an exception left it
RECURSIVE Ingest(_, _, _)
Ingest(file, k, acc) ==
    IF file.error = Some(k - 1) THEN [acc EXCEPT !.raised = TRUE]
    ELSE IF k > Len(file.rows) THEN acc
    ELSE LET processed_row == process_csv_row(file.rows[k], acc.next_id)
         IN IF processed_row.kind = "raise" THEN [acc EXCEPT !.raised = TRUE]
            ELSE Ingest(file, k + 1, AfterRow(acc, processed_row))

\* the Dataset import_csv starts from
ResetForImport(cur) ==
    [cur EXCEPT !.next_id = 1, !.data = <<>>,
                !.used_categories = {}, !.used_display_groups = {},
                !.used_levels = {}, !.used_stacks = {}]

\* the run of an import the loop left with records, standardize_names_silent
\* having run its passes (standardized) and merge_duplicate_names (merge_run):
\* prefill_auto_fields ends it
ImportMerged(reset, ing, standardized, merge_run) ==
    [state |-> [reset EXCEPT !.next_id = ing.next_id,
                             !.data = prefill_auto_fields(MergedData(merge_run))],
     ok |-> TRUE,
     imported_count |-> ing.imported_count,
     skipped_count |-> ing.skipped_count,
     ingested |-> ing.data,
     standardized |-> standardized,
     merged |-> MergedData(merge_run),
     parent |-> merge_run.m.parent,
     live |-> merge_run.live]

\* a run that merges the records as the loop left them, names not standardized
ImportMergedFirst(reset, ing, standardized) ==
    ImportMerged(reset, ing, standardized, MergeRun(ing.data))

\* the run once the passes of standardize_names_silent have run:
\* merge_duplicate_names is its third pass
ImportStandardized(reset, ing, standardized) ==
    ImportMerged(reset, ing, standardized, MergeRun(standardized))

\* import_csv once the loop over the reader has ended
ImportIngested(reset, ing) ==
    IF ~ing.raised /\ ing.imported_count > 0
    THEN ImportStandardized(reset, ing, StandardizePasses(ing.data))
    ELSE [state |-> [reset EXCEPT !.next_id = ing.next_id, !.data = ing.data],
          ok |-> ~ing.raised,
          imported_count |-> ing.imported_count,
          skipped_count |-> ing.skipped_count,
          ingested |-> ing.data,
          standardized |-> <<>>,
          merged |-> <<>>,
          parent |-> <<>>,
          live |-> <<>>]

\* import_data on a .csv file: [state |-> the Dataset after, ok |-> no
\* exception reached import_data, ...] with the values the run went through:
\* the records ingested, standardized and merged, and of the merge the record
\* each record was merged into (parent, 0 for none) and the positions left (live)
import_csv(file, cur) ==
    ImportIngested(ResetForImport(cur),
                   Ingest(file, 1, [data |-> <<>>, next_id |-> 1,
                                    imported_count |-> 0, skipped_count |-> 0,
                                    raised |-> FALSE]))

(***************************************************************************)
(* sort_by_column.                                                         *)
(***************************************************************************)
\* the sort key, with its type
get_sort_key(item, column) ==
    IF column = "id" THEN PyInt(Get(item, "id", 0))
    ELSE IF column \in {"debuff", "deep"} THEN [t |-> "bool", v |-> Get(item, column, FALSE)]
    ELSE IF column = "stacks" THEN [t |-> "bool", v |-> Get(item, column, "") # ""]
    ELSE IF column = "level"
    THEN LET level == Get(item, "level", PyStr(""))
         IN PyInt(IF level.t = "int" THEN level.v
                  ELSE IF level.v # "" /\ ParseInt(level.v).ok THEN ParseInt(level.v).v
                  ELSE 0)
    ELSE IF column = "level_group_id" THEN PyInt(Get(item, "level_group_id", 0))
    ELSE IF column = "gameIds"
    THEN LET first_id == Strip(SplitOn(Get(item, "gameIds", ""), ",")[1])
         IN PyInt(IF first_id # "" /\ ParseInt(first_id).ok
                  THEN ParseInt(first_id).v ELSE 0)
    ELSE PyStr(Lower(Get(item, column, "")))

\* a sort that takes the direction as it is, the column clicked again or not
sort_by_column_one_way(column, cur) ==
    LET keys == [i \in 1..Len(cur.data) |-> get_sort_key(cur.data[i], column)]
        order == SortPositions([i \in 1..Len(cur.data) |-> i], keys, cur.sort_reverse)
    IN [cur EXCEPT !.sort_column = Some(column),
                   !.data = [k \in 1..Len(cur.data) |-> cur.data[order[k]]]]

sort_by_column(column, cur) ==
    LET sort_reverse == IF cur.sort_column = Some(column) THEN ~cur.sort_reverse
                        ELSE FALSE
        keys == [i \in 1..Len(cur.data) |-> get_sort_key(cur.data[i], column)]
        order == SortPositions([i \in 1..Len(cur.data) |-> i], keys, sort_reverse)
    IN [cur EXCEPT !.sort_column = Some(column),
                   !.sort_reverse = sort_reverse,
                   !.data = [k \in 1..Len(cur.data) |-> cur.data[order[k]]]]

(***************************************************************************)
(* Cell edits and clear_data.                                              *)
(***************************************************************************)
\* the used-value field of get_used_values
UsedField(column_name) ==
    CASE column_name = "category" -> "used_categories"
      [] column_name = "display_group" -> "used_display_groups"
      [] column_name = "level_group" -> "used_level_groups"
      [] column_name = "level" -> "used_levels"
      [] column_name = "stacks" -> "used_stacks"

\* self.data with the column set in the records the selected rows stand for
\* (items: tree.index + 1 of each row; a row past the end of self.data stands
\* for no record)
WithCells(items, column_name, value, cur) ==
    [i \in 1..Len(cur.data) |->
        IF i \in items
        THEN Put(cur.data[i], column_name,
                 IF column_name = "level" THEN PyStr(value) ELSE value)
        ELSE cur.data[i]]

save_cell_value(items, column_name, new_value, cur) ==
    IF Strip(new_value) = "" THEN cur
    ELSE [cur EXCEPT !.data = WithCells(items, column_name, Strip(new_value), cur),
                     ![UsedField(column_name)] = @ \cup {Strip(new_value)}]

set_cell_value(items, column_name, value, cur) ==
    [cur EXCEPT !.data = WithCells(items, column_name, value, cur)]

\* the values the context menu of show_context_menu offers for set_cell_value
MenuValues(items, column_name, cur) ==
    LET level_groups == {Strip(Get(cur.data[i], "level_group", "")) :
                             i \in items \cap (1..Len(cur.data))} \ {""}
    IN {""}
       \cup (IF column_name = "display_group" /\ Cardinality(level_groups) = 1
             THEN level_groups ELSE {})
       \cup (IF column_name = "stacks" THEN {"Yes", "No"} ELSE {})
       \cup cur[UsedField(column_name)]

\* a clear that does not wait for the answer
clear_data_unasked(result, cur) == [cur EXCEPT !.data = <<>>]

\* a clear that restarts the id counter
clear_data_restarting(result, cur) ==
    IF cur.data # <<>> /\ result THEN [cur EXCEPT !.data = <<>>, !.next_id = 1] ELSE cur

\* result: the answer to the confirmation dialog
clear_data(result, cur) ==
    IF cur.data # <<>> /\ result THEN [cur EXCEPT !.data = <<>>] ELSE cur

(***************************************************************************)
(* ExportTransformer: export_json.                                         *)
(***************************************************************************)
\* value == "" for the value the key holds
IsEmptyString(key, value) ==
    IF key \in {"id", "level_group_id", "stack_id", "levelGroupId", "deep", "debuff"}
    THEN FALSE
    ELSE IF key = "level" THEN value = PyStr("")
    ELSE IF key = "ids" THEN value.value = PyStr("")
    ELSE value = ""

\* a loop that excludes level_group_id only
PassedKeysWithId(item) ==
    {key \in DOMAIN item :
        /\ ~IsEmptyString(key, item[key])
        /\ key \notin {"level_group_id"}
        /\ key \notin {"gameIds", "stacks", "ids"}}

\* the keys of item the loop copies as they are and no other branch writes
PassedKeys(item) ==
    {key \in DOMAIN item :
        /\ ~IsEmptyString(key, item[key])
        /\ key \notin {"id", "level_group_id"}
        /\ key \notin {"gameIds", "stacks", "ids"}}

\* the value a record holds under a key 'ids' of its own, which only a project
\* file that save_project did not write brings: value is what the key holds, a
\* JList or a PyStr, and after_gameIds tells whether the key comes after
\* 'gameIds' in the order of the dict (json.load keeps the order of the file,
\* and the loop of export_json goes through item.items() in that order)
OwnIds(value, after_gameIds) == [value |-> value, after_gameIds |-> after_gameIds]

\* filtered_item of one record: filtered_item['ids'] is written by the branch
\* of gameIds (line 467, when the ids parse and there is one) and by the last
\* line of the loop for a key 'ids' of the record's own (483); the later of
\* the two writes stays
ExportItem(item) ==
    LET ids_list == IF "gameIds" \in DOMAIN item
                    THEN SortedInts(parse_game_ids(item["gameIds"])) ELSE <<>>
        with_ids == ids_list # <<>>
        own == "ids" \in DOMAIN item /\ ~IsEmptyString("ids", item["ids"])
        own_stays == own /\ (item["ids"].after_gameIds \/ ~with_ids)
        with_stacks == "stacks" \in DOMAIN item /\ item["stacks"] \in {"Yes", "No"}
    IN [key \in PassedKeys(item)
               \cup (IF with_ids \/ own THEN {"ids"} ELSE {})
               \cup (IF with_stacks THEN {"stacks"} ELSE {}) |->
           IF key = "ids"
           THEN IF ~own_stays THEN ids_list
                ELSE IF "items" \in DOMAIN item["ids"].value
                THEN item["ids"].value.items ELSE item["ids"].value.v
           ELSE IF key = "stacks" THEN item["stacks"] = "Yes"
           ELSE item[key]]

\* filtered_data: the list json.dump writes
export_json(cur) == [i \in 1..Len(cur.data) |-> ExportItem(cur.data[i])]

(***************************************************************************)
(* ProjectStore.  A project file is garbage (json.load raises) or          *)
(* Json(doc), doc a function from the keys of the JSON object to their     *)
(* values; the value of a used-value key is JList(list) or, for a value    *)
(* set() cannot take, JNumber(n).  JSON keeps str, int, bool and null as   *)
(* they are, so a record is written and read back as the same function.    *)
(***************************************************************************)
Json(doc) == [kind |-> "json", doc |-> doc]
JList(q) == [kind |-> "list", items |-> q]
JNumber(n) == [kind |-> "number", value |-> n]

UsedFields ==
    <<"used_categories", "used_display_groups", "used_level_groups",
      "used_levels", "used_stacks">>

\* list(S): the lists holding the elements of S once each, in any order
Orderings(S) == {q \in [1..Cardinality(S) -> S] : Range(q) = S}

\* a project_data without the used levels
save_project_without_levels(cur, order) ==
    [version |-> "1.0",
     data |-> cur.data,
     next_id |-> cur.next_id,
     used_categories |-> JList(order["used_categories"]),
     used_display_groups |-> JList(order["used_display_groups"]),
     used_level_groups |-> JList(order["used_level_groups"]),
     used_stacks |-> JList(order["used_stacks"]),
     sort_column |-> cur.sort_column,
     sort_reverse |-> cur.sort_reverse]

\* project_data of save_project; order[field] is the list(...) of that set
save_project(cur, order) ==
    [version |-> "1.0",
     data |-> cur.data,
     next_id |-> cur.next_id,
     used_categories |-> JList(order["used_categories"]),
     used_display_groups |-> JList(order["used_display_groups"]),
     used_level_groups |-> JList(order["used_level_groups"]),
     used_levels |-> JList(order["used_levels"]),
     used_stacks |-> JList(order["used_stacks"]),
     sort_column |-> cur.sort_column,
     sort_reverse |-> cur.sort_reverse]

\* a loop that renames stack_id only
MigrateItemIdOnly(item) ==
    IF "stack_id" \in DOMAIN item
    THEN Put(Pop(item, "stack_id"), "level_group_id", item["stack_id"])
    ELSE item

\* the renames of the loop over migrated_data['data'], on one record
MigrateItem(item) ==
    LET renamed_id ==
            IF "stack_id" \in DOMAIN item
            THEN Put(Pop(item, "stack_id"), "level_group_id", item["stack_id"])
            ELSE item
    IN IF "stack_group" \in DOMAIN renamed_id
       THEN Put(Pop(renamed_id, "stack_group"), "level_group", renamed_id["stack_group"])
       ELSE renamed_id

\* [project_data |-> migrated_data, migration_performed |-> ...]
migrate_project_data(project_data) ==
    LET needs_migration ==
            \/ /\ "data" \in DOMAIN project_data
               /\ \E i \in 1..Len(project_data["data"]) :
                      \/ "stack_id" \in DOMAIN project_data["data"][i]
                      \/ "stack_group" \in DOMAIN project_data["data"][i]
            \/ "used_stack_groups" \in DOMAIN project_data
        items ==
            IF "data" \in DOMAIN project_data
            THEN Put(project_data, "data",
                     [i \in 1..Len(project_data["data"]) |->
                         MigrateItem(project_data["data"][i])])
            ELSE project_data
        migrated_data ==
            IF "used_stack_groups" \in DOMAIN items
            THEN Put(Pop(items, "used_stack_groups"), "used_level_groups",
                     items["used_stack_groups"])
            ELSE items
    IN IF needs_migration
       THEN [project_data |-> migrated_data, migration_performed |-> TRUE]
       ELSE [project_data |-> project_data, migration_performed |-> FALSE]

\* the five set(...) assignments of load_project from the k-th on, in order,
\* up to the first that raises
RECURSIVE LoadUsedValues(_, _, _)
LoadUsedValues(project_data, cur, k) ==
    IF k > Len(UsedFields) THEN [state |-> cur, raised |-> FALSE]
    ELSE LET entry == Get(project_data, UsedFields[k], JList(<<>>))
         IN IF entry.kind # "list" THEN [state |-> cur, raised |-> TRUE]
            ELSE LoadUsedValues(project_data,
                                [cur EXCEPT ![UsedFields[k]] = Range(entry.items)],
                                k + 1)

\* a format check that asks for the record list only
ValidProjectDataOnly(project_data) == "data" \in DOMAIN project_data

\* the format check of load_project
ValidProject(project_data) ==
    "data" \in DOMAIN project_data /\ "next_id" \in DOMAIN project_data

\* [state |-> the Dataset after, outcome |-> "error" (the except branch),
\*  "invalid" (the format check) or "loaded"]
load_project(file, cur) ==
    IF file.kind # "json" THEN [state |-> cur, outcome |-> "error"]
    ELSE LET project_data == migrate_project_data(file.doc).project_data
             loaded == [cur EXCEPT !.data = project_data["data"],
                                   !.next_id = Get(project_data, "next_id", 1)]
             used == LoadUsedValues(project_data, loaded, 1)
         IN IF ~ValidProject(project_data)
            THEN [state |-> cur, outcome |-> "invalid"]
            ELSE IF used.raised THEN [state |-> used.state, outcome |-> "error"]
            ELSE [state |-> [used.state EXCEPT
                                !.sort_column = Get(project_data, "sort_column", None),
                                !.sort_reverse = Get(project_data, "sort_reverse", FALSE)],
                  outcome |-> "loaded"]

(***************************************************************************)
(* The state: the Dataset, the rows of self.tree (tree: how many it shows;  *)
(* refresh_treeview makes them the records of self.data, and a handler     *)
(* that returns without it leaves them as they were), the context menu     *)
(* that is posted (menu: the rows, the column and the values its entries   *)
(* were built with; tk_popup unposts the menu before it, and where         *)
(* tk_popup returns at once, as on X11, other handlers run while the menu  *)
(* is posted), the files the session wrote, and a record of the last       *)
(* operation (its name, its inputs, the Dataset before it and what it went *)
(* through).  refresh_treeview deletes the rows of the tree and inserts    *)
(* new ones: tree.index raises TclError for a row of a menu built before   *)
(* it, every entry of such a menu changes nothing, and the model drops the *)
(* menu.                                                                   *)
(***************************************************************************)
VARIABLES data, next_id,
          used_categories, used_display_groups, used_level_groups,
          used_levels, used_stacks,
          sort_column, sort_reverse, tree, menu,
          project_file, exported, last, steps

vars == <<data, next_id, used_categories, used_display_groups, used_level_groups,
          used_levels, used_stacks, sort_column, sort_reverse, tree, menu,
          project_file, exported, last, steps>>

Dataset ==
    [data |-> data, next_id |-> next_id,
     used_categories |-> used_categories,
     used_display_groups |-> used_display_groups,
     used_level_groups |-> used_level_groups,
     used_levels |-> used_levels, used_stacks |-> used_stacks,
     sort_column |-> sort_column, sort_reverse |-> sort_reverse]

\* the Dataset becomes d
Becomes(d) ==
    /\ data' = d.data
    /\ next_id' = d.next_id
    /\ used_categories' = d.used_categories
    /\ used_display_groups' = d.used_display_groups
    /\ used_level_groups' = d.used_level_groups
    /\ used_levels' = d.used_levels
    /\ used_stacks' = d.used_stacks
    /\ sort_column' = d.sort_column
    /\ sort_reverse' = d.sort_reverse

Init ==
    /\ data = <<>> /\ next_id = 1
    /\ used_categories = {} /\ used_display_groups = {} /\ used_level_groups = {}
    /\ used_levels = {} /\ used_stacks = {}
    /\ sort_column = None /\ sort_reverse = FALSE
    /\ tree = 0
    /\ menu = None
    /\ project_file = None
    /\ exported = None
    /\ last = [op |-> "init"]
    /\ steps = 0

\* import_data with a .csv file chosen; its except branch returns without
\* refresh_treeview
ImportData(file) ==
    LET run == import_csv(file, Dataset)
    IN /\ Becomes(run.state)
       /\ tree' = IF run.ok THEN Len(run.state.data) ELSE tree
       /\ menu' = IF run.ok THEN None ELSE menu
       /\ last' = [op |-> "import", before |-> Dataset, file |-> file, run |-> run]
       /\ steps' = steps + 1
       /\ UNCHANGED <<project_file, exported>>

\* the record of a run of merge_duplicate_names
MergeRecord(before, merge_run) ==
    [op |-> "merge", before |-> before,
     parent |-> merge_run.m.parent, live |-> merge_run.live]

\* merge_duplicate_names, called on the Dataset as it is
MergeDuplicateNames ==
    /\ data' = merge_duplicate_names(data)
    /\ last' = MergeRecord(Dataset, MergeRun(data))
    /\ steps' = steps + 1
    /\ UNCHANGED <<next_id, used_categories, used_display_groups, used_level_groups,
                   used_levels, used_stacks, sort_column, sort_reverse, tree,
                   menu, project_file, exported>>

SortByColumn(column) ==
    /\ Becomes(sort_by_column(column, Dataset))
    /\ tree' = Len(data')
    /\ menu' = None
    /\ last' = [op |-> "sort", before |-> Dataset, column |-> column]
    /\ steps' = steps + 1
    /\ UNCHANGED <<project_file, exported>>

\* show_context_menu on a row of an editable column, rows items of the tree
\* selected: the entries of the menu are built from the Dataset as it is now
ShowContextMenu(items, column_name) ==
    /\ menu' = Some([items |-> items, column_name |-> column_name,
                     values |-> MenuValues(items, column_name, Dataset)])
    /\ steps' = steps + 1
    /\ UNCHANGED <<data, next_id, used_categories, used_display_groups,
                   used_level_groups, used_levels, used_stacks, sort_column,
                   sort_reverse, tree, project_file, exported, last>>

\* the entry "New ..." of the posted menu and the OK button of the dialog of
\* edit_cell_value (the dialog holds the grab: no other handler runs in
\* between); a blank value closes the dialog and nothing else
SaveCellValue(new_value) ==
    /\ menu # None
    /\ Becomes(save_cell_value(menu[1].items, menu[1].column_name, new_value, Dataset))
    /\ tree' = IF Strip(new_value) = "" THEN tree ELSE Len(data')
    /\ menu' = None
    /\ last' = [op |-> "edit", before |-> Dataset, items |-> menu[1].items,
                column_name |-> menu[1].column_name, value |-> new_value]
    /\ UNCHANGED <<steps, project_file, exported>>

\* an entry of the posted menu that calls set_cell_value, with the value the
\* menu was built with
SetCellValue(value) ==
    /\ menu # None /\ value \in menu[1].values
    /\ Becomes(set_cell_value(menu[1].items, menu[1].column_name, value, Dataset))
    /\ tree' = Len(data')
    /\ menu' = None
    /\ last' = [op |-> "set", before |-> Dataset, items |-> menu[1].items,
                column_name |-> menu[1].column_name, value |-> value]
    /\ UNCHANGED <<steps, project_file, exported>>

ClearData(result) ==
    /\ Becomes(clear_data(result, Dataset))
    /\ tree' = IF data # <<>> /\ result THEN 0 ELSE tree
    /\ menu' = IF data # <<>> /\ result THEN None ELSE menu
    /\ last' = [op |-> "clear", before |-> Dataset, result |-> result]
    /\ steps' = steps + 1
    /\ UNCHANGED <<project_file, exported>>

\* export_data: nothing is written when there is no data
ExportData ==
    /\ data # <<>>
    /\ exported' = Some(export_json(Dataset))
    /\ last' = [op |-> "export", before |-> Dataset]
    /\ steps' = steps + 1
    /\ UNCHANGED <<data, next_id, used_categories, used_display_groups,
                   used_level_groups, used_levels, used_stacks, sort_column,
                   sort_reverse, tree, menu, project_file>>

\* save_project: nothing is written when there is no data; the file holds the
\* document and, for the record, the Dataset it was written from
SaveProject ==
    /\ data # <<>>
    /\ \E c \in Orderings(used_categories), d \in Orderings(used_display_groups),
          g \in Orderings(used_level_groups), l \in Orderings(used_levels),
          s \in Orderings(used_stacks) :
          project_file' =
              Some([file |-> Json(save_project(Dataset,
                                 [used_categories |-> c, used_display_groups |-> d,
                                  used_level_groups |-> g, used_levels |-> l,
                                  used_stacks |-> s])),
                    saved |-> Dataset])
    /\ last' = [op |-> "save", before |-> Dataset]
    /\ steps' = steps + 1
    /\ UNCHANGED <<data, next_id, used_categories, used_display_groups,
                   used_level_groups, used_levels, used_stacks, sort_column,
                   sort_reverse, tree, menu, exported>>

\* load_project with the file chosen; source tells where the file came from;
\* only a load that went through reaches refresh_treeview
LoadProject(file, source) ==
    LET run == load_project(file, Dataset)
    IN /\ Becomes(run.state)
       /\ tree' = IF run.outcome = "loaded" THEN Len(run.state.data) ELSE tree
       /\ menu' = IF run.outcome = "loaded" THEN None ELSE menu
       /\ last' = [op |-> "load", before |-> Dataset, file |-> file,
                   source |-> source, outcome |-> run.outcome]
       /\ steps' = steps + 1
       /\ UNCHANGED <<project_file, exported>>

(***************************************************************************)
(* Inputs.                                                                 *)
(***************************************************************************)
\* a full row: its Name, ID and passiveSpEffectId_1 cells, the allow columns
\* that hold "1", its attachFilterParamId and isDebuff cells
Row(name, id, effect, allowed, attach, debuff) ==
    [col \in {"ID", "Name", "isDebuff", "isNumericEffect", "attachFilterParamId",
              "passiveSpEffectId_1", "passiveSpEffectId_2", "passiveSpEffectId_3"}
                 \cup Range(AllowColumns) |->
        Some(CASE col = "Name" -> name
               [] col = "ID" -> id
               [] col = "passiveSpEffectId_1" -> effect
               [] col = "attachFilterParamId" -> attach
               [] col = "isDebuff" -> debuff
               [] col = "isNumericEffect" -> "1"
               [] col \in allowed -> "1"
               [] OTHER -> "0")]

\* the rows of the files of a single import
ImportRows ==
    {Row("Relic: a b", "10", "0", {}, "0", "0"),
     Row("Relic: a b", "30", "0", {}, "0", "0"),
     Row("Relic: a b c", "20", "0", {}, "0", "0"),
     Row("Relic: a b c d", "10", "20", {}, "7", "1"),
     Row("Relic: a b", "10", "0", {"allowWylder"}, "7", "0"),
     Row("Character Relic: a b", "10", "30", {"allowGuardian"}, "0", "0"),
     Row("Loot: a b", "10", "0", {}, "0", "0")}

\* the files of a session
LevelRows ==
    <<Row("Relic: Fire Up", "10", "0", {}, "7", "0"),
      Row("Relic: Fire Up +1", "11", "0", {}, "7", "true")>>

SessionFiles ==
    {[rows |-> LevelRows, error |-> None],
     [rows |-> <<Row("Loot: Fire Up", "12", "0", {}, "0", "0"),
                 Row("Relic: Wylder: Guard- Up", "13", "0", {"allowWylder"}, "0", "0")>>,
      error |-> None],
     [rows |-> <<>>, error |-> Some(0)],
     [rows |-> LevelRows, error |-> Some(1)]}

\* a record as ingestion leaves it, for the snapshots below
Relic(id, name, level_group_id) ==
    [id |-> id, gameIds |-> "40", name |-> name, debuff |-> FALSE, deep |-> TRUE,
     stacks |-> "Yes", nightfarer |-> "", level_group_id |-> level_group_id,
     level_group |-> "Ward", category |-> "", display_group |-> "",
     level |-> PyInt(id)]

\* the same record as a version before the rename wrote it
LegacyRelic(id, name, stack_id) ==
    [id |-> id, gameIds |-> "40", name |-> name, debuff |-> FALSE, deep |-> TRUE,
     stacks |-> "Yes", nightfarer |-> "", stack_id |-> stack_id,
     stack_group |-> "Ward", category |-> "", display_group |-> "",
     level |-> PyInt(id)]

CurrentSnapshot ==
    [version |-> "1.0",
     data |-> <<Relic(2, "Ward +1", 5), Relic(1, "Ward", 5)>>,
     next_id |-> 4,
     used_categories |-> JList(<<"Buff">>),
     used_display_groups |-> JList(<<>>),
     used_level_groups |-> JList(<<"Ward", "Aegis">>),
     used_levels |-> JList(<<"2">>),
     used_stacks |-> JList(<<>>),
     sort_column |-> Some("id"),
     sort_reverse |-> TRUE]

LegacySnapshot ==
    [version |-> "1.0",
     data |-> <<LegacyRelic(2, "Ward +1", 5), LegacyRelic(1, "Ward", 5)>>,
     next_id |-> 4,
     used_categories |-> JList(<<"Buff">>),
     used_display_groups |-> JList(<<>>),
     used_stack_groups |-> JList(<<"Ward", "Aegis">>),
     used_levels |-> JList(<<"2">>),
     used_stacks |-> JList(<<>>),
     sort_column |-> Some("id"),
     sort_reverse |-> TRUE]

\* a legacy snapshot and the snapshot that holds the same values under the
\* current names, whole and damaged
SnapshotPairs ==
    {<<LegacySnapshot, CurrentSnapshot>>,
     <<Pop(LegacySnapshot, "data"), Pop(CurrentSnapshot, "data")>>,
     <<Put(LegacySnapshot, "used_levels", JNumber(5)),
       Put(CurrentSnapshot, "used_levels", JNumber(5))>>}

\* the project files a session may be given besides the one it wrote; the
\* records of the second hold keys no version of the program writes, ids
\* (after gameIds in the first record, before it in the second) and
\* levelGroupId
ForeignFiles ==
    {Json(CurrentSnapshot),
     Json([CurrentSnapshot EXCEPT !.data =
              <<Put(Put(Relic(2, "Ward +1", 5), "ids", OwnIds(JList(<<7>>), TRUE)),
                    "levelGroupId", 5),
                Put(Relic(1, "Ward", 5), "ids", OwnIds(JList(<<7>>), FALSE))>>]),
     Json(LegacySnapshot),
     Json(Pop(CurrentSnapshot, "next_id")),
     Json(Pop(LegacySnapshot, "data")),
     Json(Put(CurrentSnapshot, "used_categories", JNumber(5))),
     Json(Put(LegacySnapshot, "used_levels", JNumber(5))),
     [kind |-> "garbage"]}

\* the non-empty sets of rows of the tree a user selects, each row by its
\* tree.index + 1
Selections == (SUBSET (1..tree)) \ {{}}


(***************************************************************************)
(* A session: any operation of the user, MaxSteps of them; the entry of a  *)
(* menu is counted with the menu it is chosen from.                        *)
(***************************************************************************)
Next ==
    \/ /\ steps < MaxSteps
       /\ \/ \E file \in SessionFiles : ImportData(file)
          \/ \E column \in {"id", "name", "level"} : SortByColumn(column)
          \/ \E items \in Selections, column_name \in {"category", "level_group"} :
                 ShowContextMenu(items, column_name)
          \/ \E result \in BOOLEAN : ClearData(result)
          \/ ExportData
          \/ SaveProject
          \/ \E file \in ForeignFiles : LoadProject(file, "foreign")
          \/ project_file # None /\ LoadProject(project_file[1].file, "project")
    \/ SaveCellValue(" Buff ")
    \/ menu # None /\ \E value \in menu[1].values : SetCellValue(value)

Spec == Init /\ [][Next]_vars

(***************************************************************************)
(* One import of any file of at most MaxRows rows of ImportRows, then      *)
(* sorts by id and further                                                 *)
(* runs of merge_duplicate_names on the Dataset the import left.           *)
(***************************************************************************)
NextImport ==
    \/ steps = 0 /\ \E k \in 0..MaxRows : \E rows \in [1..k -> ImportRows] :
                        ImportData([rows |-> rows, error |-> None])
    \/ steps \in 1..2 /\ data # <<>> /\ SortByColumn("id")
    \/ steps \in 1..2 /\ data # <<>> /\ MergeDuplicateNames

SpecImport == Init /\ [][NextImport]_vars

(***************************************************************************)
(* A session on project files: loads, saves, and edits and sorts between.  *)
(***************************************************************************)
NextStore ==
    /\ steps < MaxStoreSteps
    /\ \/ steps = 0 /\ ImportData([rows |-> LevelRows, error |-> None])
       \/ \E file \in ForeignFiles : LoadProject(file, "foreign")
       \/ SaveProject
       \/ \E items \in Selections : ShowContextMenu(items, "category")
       \/ SaveCellValue(" Aura ")
       \/ SortByColumn("name")
       \/ project_file # None /\ LoadProject(project_file[1].file, "project")

SpecStore == Init /\ [][NextStore]_vars
(***************************************************************************)
(* A session that loads no project file but the one it wrote; one of its   *)
(* files cannot be decoded after its two rows.                             *)
(***************************************************************************)
NextOwnFiles ==
    \/ /\ steps < MaxSteps
       /\ \/ \E file \in SessionFiles \cup {[rows |-> LevelRows, error |-> Some(2)]} :
                 ImportData(file)
          \/ \E column \in {"id", "name", "level"} : SortByColumn(column)
          \/ \E items \in Selections,
                column_name \in {"category", "display_group", "stacks"} :
                 ShowContextMenu(items, column_name)
          \/ \E result \in BOOLEAN : ClearData(result)
          \/ ExportData
          \/ SaveProject
          \/ project_file # None /\ LoadProject(project_file[1].file, "project")
    \/ SaveCellValue(" Buff ")
    \/ menu # None /\ \E value \in menu[1].values : SetCellValue(value)

SpecOwnFiles == Init /\ [][NextOwnFiles]_vars

(***************************************************************************)
(* One import of a file of at most two rows, the rows with the cells a     *)
(* reader may yield: ids with signs, zeros and blanks (a form feed among   *)
(* them), values that are no numbers, names with a hyphen before a space, *)
(* names of a level group that start with a small letter of U+00E9, and    *)
(* short rows (a cell None for each column the row does not reach); or of  *)
(* the file of a level group of three.                                     *)
(***************************************************************************)
CellRows ==
    {Row("Relic: a b", id, "0", {}, "0", "0") :
        id \in {"10", "00", "+5", "-3", " 12 ", "x", "1_0", "0"}}
    \cup {Row("Relic: c d", "10", effect, {"allowRaider"}, attach, debuff) :
            effect \in {"10", "5"}, attach \in {"x", " 7 "}, debuff \in {"maybe", "TRUE"}}
    \cup {Row("Relic: X", "30", "0", {}, "7", "0"),
          Row("Relic: X +1", "31", "0", {}, "7", "0"),
          Row("Relic: X +2", "32", "0", {}, "7", "0"),
          Row("Relic: Wylder: Power Strike", "10", "0", {}, "0", "0"),
          Row("Relic: Power Strike +1", "10", "20", {}, "0", "0"),
          Row("Relic: Wylder: Power Strike", "10", "0", {"allowWylder"}, "0", "0"),
          Row("Relic: Wylder: Power Strike", "10", "0", {"allowGuardian"}, "0", "0"),
          Row("Relic: Power Strike +1", "10", "20", {"allowRaider"}, "0", "0"),
          Row("Relic: Power Strike +1", "10", "20", {"allowWylder", "allowRaider"}, "0", "0"),
          Row("Relic: g- h", "50", "0", {}, "0", "0"),
          Row("Relic: g- h", "50", "0", {"allowRaider"}, "0", "0"),
          Row("Relic: Wylder: g- h", "50", "0", {}, "0", "0"),
          Row("Relic: [Wylder] g- h", "50", "0", {}, "0", "0"),
          Row("Relic: [ ab ] c", "70", "0", {}, "0", "1"),
          Row("Relic: [ ] c", "70", "0", {}, "0", "0"),
          Row("Relic: ", "60", "0", {}, "0", "0"),
          Row("Character Relic: ", "60", "0", {"allowWylder"}, "0", "0"),
          Row("Relic: \f", " 61\f", "0", {}, "0", "0"),
          Row("Relic: i j\f", "\f62", "0", {}, "\f7", "0"),
          Row("Relic: éa b", "80", "0", {}, "9", "0"),
          Row("Relic: éa b +1", "81", "0", {}, "9", "0"),
          Row("Loot: a b", "00", "0", {}, "", "0"),
          [col \in DOMAIN Row("", "", "", {}, "", "") |->
              IF col \in Range(AllowColumns) THEN None
              ELSE Row("Relic: e f", "10", "0", {}, "7", "0")[col]],
          [col \in DOMAIN Row("", "", "", {}, "", "") |->
              IF col \in Range(AllowColumns) \cup {"passiveSpEffectId_3"} THEN None
              ELSE Row("Relic: e f", "10", "0", {}, "7", "0")[col]],
          [col \in DOMAIN Row("", "", "", {}, "", "") |->
              IF col \in {"ID", "Name"} THEN Row("Relic: e f", "10", "0", {}, "7", "0")[col]
              ELSE None]}

NextRows ==
    \/ steps = 0 /\ \E k \in 0..2 : \E rows \in [1..k -> CellRows] :
                        ImportData([rows |-> rows, error |-> None])
    \/ steps = 0 /\ ImportData([rows |-> <<Row("Relic: X", "30", "0", {}, "7", "0"),
                                          Row("Relic: X +1", "31", "0", {}, "7", "0"),
                                          Row("Relic: X +2", "32", "0", {}, "7", "0")>>,
                                error |-> None])

SpecRows == Init /\ [][NextRows]_vars

(***************************************************************************)
(* One call of a function of the merge on arguments of a small set:        *)
(* merge_truncated_pair on two records, the lower id in either argument,   *)
(* is_truncated_variant on two names, and migrate_project_data on a        *)
(* snapshot, some of the current keys added to its first record and to its *)
(* root; and, for the calls merge_truncated_names makes, one import of a   *)
(* file of one or two rows.                                                *)
(***************************************************************************)
NextCalls ==
    \/ steps = 0 /\ \E k \in 1..2 : \E rows \in [1..k -> ImportRows] :
                        ImportData([rows |-> rows, error |-> None])
    \/ /\ steps = 0 /\ steps' = 1
       /\ UNCHANGED <<data, next_id, used_categories, used_display_groups,
                      used_level_groups, used_levels, used_stacks, sort_column,
                      sort_reverse, tree, menu, project_file, exported>>
       /\ \/ \E ids \in {<<1, 2>>, <<2, 1>>},
                 name1, name2 \in {"a b", "a b c", "a b c d e", "[Wylder] a b", "ab", "abcd"},
                 game_ids \in {"40", "40, 50", "60"} :
                 last' = [op |-> "merge_truncated_pair",
                          items |-> <<Relic(ids[1], name1, 0),
                                      Put(Relic(ids[2], name2, 0), "gameIds", game_ids)>>,
                          m |-> merge_truncated_pair(
                                    [items |-> <<Relic(ids[1], name1, 0),
                                                 Put(Relic(ids[2], name2, 0),
                                                     "gameIds", game_ids)>>,
                                     rem |-> <<>>, parent |-> <<0, 0>>], 1, 2)]
          \/ \E name1, name2 \in {"a b", "a b c", "a bc", "a b c d e", "[Wylder] a b",
                                   "[Raider] a b c", "ab", "abc", "abcd", "ab cd", "x y"} :
                 last' = [op |-> "is_truncated_variant", name1 |-> name1, name2 |-> name2,
                          result |-> is_truncated_variant(name1, name2)]
          \/ \E base \in {CurrentSnapshot, LegacySnapshot},
                 added \in SUBSET {"level_group_id", "level_group", "used_level_groups"} :
                 LET first == [key \in DOMAIN base["data"][1]
                                       \cup (added \ {"used_level_groups"}) |->
                                  IF key \notin added THEN base["data"][1][key]
                                  ELSE IF key = "level_group_id" THEN 9 ELSE "Keep"]
                     with_first == Put(base, "data", <<first, base["data"][2]>>)
                     project_data ==
                         IF "used_level_groups" \in added
                         THEN Put(with_first, "used_level_groups", JList(<<"Keep">>))
                         ELSE with_first
                 IN last' = [op |-> "migrate_project_data", project_data |-> project_data,
                             result |-> migrate_project_data(project_data)]

SpecCalls == Init /\ [][NextCalls]_vars

(***************************************************************************)
(* Properties.                                                             *)
(***************************************************************************)
\* the record list, next_id and the five used-value sets of a Dataset
Contents(d) ==
    [data |-> d.data, next_id |-> d.next_id,
     used_categories |-> d.used_categories,
     used_display_groups |-> d.used_display_groups,
     used_level_groups |-> d.used_level_groups,
     used_levels |-> d.used_levels, used_stacks |-> d.used_stacks]

\* C1: when import_csv is given a file that cannot be opened or decoded, the
\* record list, next_id and the five used-value sets after the failed import
\* are exactly what they were before the import was attempted.
C1_FailedImportLeavesDataset ==
    (last.op = "import" /\ last.file.error # None) =>
        Contents(Dataset) = Contents(last.before)

\* the list merge_duplicate_names was run on and the list it left, for the run
\* of the last operation (an import runs it on the standardized records)
MergeInput ==
    IF last.op = "import" THEN last.run.standardized
    ELSE IF last.op = "merge" THEN last.before.data
    ELSE <<>>
MergeOutput ==
    IF last.op = "import" THEN last.run.merged
    ELSE IF last.op = "merge" THEN data
    ELSE <<>>
MergeParent ==
    IF last.op = "import" THEN last.run.parent
    ELSE IF last.op = "merge" THEN last.parent
    ELSE <<>>
MergeLive ==
    IF last.op = "import" THEN last.run.live
    ELSE IF last.op = "merge" THEN last.live
    ELSE <<>>

\* C2: merge_duplicate_names is idempotent: run a second time on the list a
\* first run left, it removes no record and changes no record's name or
\* gameIds.
C2_MergeIdempotent ==
    LET again == merge_duplicate_names(MergeOutput)
    IN /\ Len(again) = Len(MergeOutput)
       /\ \A k \in 1..Len(MergeOutput) :
              /\ Get(again[k], "name", "") = Get(MergeOutput[k], "name", "")
              /\ Get(again[k], "gameIds", "") = Get(MergeOutput[k], "gameIds", "")

\* the record the record at position i ended in, through the chain of merges
RECURSIVE Root(_, _)
Root(parent, i) == IF parent[i] = 0 THEN i ELSE Root(parent, parent[i])

\* the gameIds of the records of the list at the positions S, together
GameIdsOf(items, S) == UNION {parse_game_ids(Get(items[i], "gameIds", "")) : i \in S}

\* C3: after merge_duplicate_names the surviving records are those merged into
\* no other, each survivor's gameIds is the union of its own original gameIds
\* and those of every record merged into it, directly or through a chain, and
\* so no gameId of the list before the merge is missing after it.
C3_MergeKeepsGameIds ==
    /\ Len(MergeOutput) = Len(MergeLive)
    /\ Range(MergeLive) = {i \in 1..Len(MergeInput) : MergeParent[i] = 0}
    /\ \A k \in 1..Len(MergeOutput) :
           parse_game_ids(Get(MergeOutput[k], "gameIds", ""))
               = GameIdsOf(MergeInput, {i \in 1..Len(MergeInput) :
                                           Root(MergeParent, i) = MergeLive[k]})
    /\ GameIdsOf(MergeInput, 1..Len(MergeInput))
           = GameIdsOf(MergeOutput, 1..Len(MergeOutput))

\* a merge of exact duplicates and a merge of truncated variants, each of
\* records with different gameIds, and a chain of two merges
C3_Witness ==
    /\ \E i \in 1..Len(MergeInput) :
           /\ MergeParent[i] # 0
           /\ Get(MergeInput[i], "name", "") = Get(MergeInput[MergeParent[i]], "name", "")
           /\ Get(MergeInput[i], "gameIds", "")
                  # Get(MergeInput[MergeParent[i]], "gameIds", "")
    /\ \E i \in 1..Len(MergeInput) :
           /\ MergeParent[i] # 0
           /\ Get(MergeInput[i], "name", "") # Get(MergeInput[MergeParent[i]], "name", "")
           /\ ~(parse_game_ids(Get(MergeInput[i], "gameIds", ""))
                  \subseteq parse_game_ids(Get(MergeInput[MergeParent[i]], "gameIds", "")))
    /\ \E i \in 1..Len(MergeInput) :
           MergeParent[i] # 0 /\ MergeParent[MergeParent[i]] # 0

\* the faction a name is tagged with: Some(faction) when the name starts with
\* the bracketed name of a faction, None otherwise
LeadingTag(name) ==
    IF \E i \in 1..Len(NightfarerNames) : StartsWith(name, "[" \o NightfarerNames[i] \o "]")
    THEN Some(NightfarerNames[CHOOSE i \in 1..Len(NightfarerNames) :
                                  StartsWith(name, "[" \o NightfarerNames[i] \o "]")])
    ELSE None

\* C4: after a completed import no record has a non-empty nightfarer field N
\* and a name whose leading bracketed faction tag names a faction other than N.
C4_TagMatchesNightfarer ==
    (last.op = "import" /\ last.run.ok) =>
        \A k \in 1..Len(data) :
            (Get(data[k], "nightfarer", "") # "" /\ LeadingTag(data[k]["name"]) # None)
                => LeadingTag(data[k]["name"]) = Some(data[k]["nightfarer"])

\* C5 as stated: no record export_json writes holds the key id, level_group_id
\* or levelGroupId, whatever the fields of the Dataset hold.
C5_ExportWithoutIds ==
    exported # None =>
        \A k \in 1..Len(exported[1]) :
            DOMAIN exported[1][k] \cap {"id", "level_group_id", "levelGroupId"} = {}

\* C5: no record export_json writes holds the key id or the key
\* level_group_id, whatever the fields of the Dataset hold; the key
\* levelGroupId, which the loop has no branch for, is in the record written
\* exactly when it is in the record of the Dataset.
C5_ExportWithoutIdFields ==
    /\ exported # None =>
           \A k \in 1..Len(exported[1]) :
               DOMAIN exported[1][k] \cap {"id", "level_group_id"} = {}
    /\ (last.op = "export" /\ exported # None) =>
           /\ Len(exported[1]) = Len(last.before.data)
           /\ \A k \in 1..Len(last.before.data) :
                  ("levelGroupId" \in DOMAIN exported[1][k])
                      = ("levelGroupId" \in DOMAIN last.before.data[k])

\* an export of records that hold an id and a level_group_id other than 0,
\* one of them with the key levelGroupId of a project file and one without
C5_Witness ==
    /\ last.op = "export"
    /\ exported # None
    /\ \A k \in 1..Len(last.before.data) :
           /\ last.before.data[k]["id"] # 0
           /\ last.before.data[k]["level_group_id"] # 0
           /\ DOMAIN exported[1][k] # {}
    /\ \E k, l \in 1..Len(last.before.data) :
           /\ "levelGroupId" \in DOMAIN last.before.data[k]
           /\ "levelGroupId" \notin DOMAIN last.before.data[l]

\* C6: save_project followed by load_project of the file it wrote gives the
\* record list, next_id, five used-value sets, sort column and sort direction
\* the Dataset had when it was saved.
C6_SaveLoadRoundTrip ==
    (last.op = "load" /\ last.source = "project") =>
        /\ last.outcome = "loaded"
        /\ Dataset = project_file[1].saved

\* a load of the file the session wrote, after the records and the used
\* categories had changed since the save, the file holding a sort state and a
\* used-value list of two
C6_Witness ==
    /\ last.op = "load" /\ last.source = "project"
    /\ last.before.data # project_file[1].saved.data
    /\ last.before.used_categories # project_file[1].saved.used_categories
    /\ project_file[1].saved.sort_column # None
    /\ project_file[1].saved.sort_reverse
    /\ Cardinality(project_file[1].saved.used_level_groups) >= 2

\* C7: loading a legacy snapshot, with the keys stack_id, stack_group and
\* used_stack_groups, ends as loading the snapshot that holds the same values
\* under the current key names does.
C7_LegacyLoadsAsCurrent ==
    \A pair \in SnapshotPairs :
        (last.op = "load" /\ last.file = Json(pair[1])) =>
            /\ Dataset = load_project(Json(pair[2]), last.before).state
            /\ last.outcome = load_project(Json(pair[2]), last.before).outcome

\* the legacy snapshot loaded, its records now under the current names
C7_Witness ==
    /\ last.op = "load" /\ last.file = Json(LegacySnapshot)
    /\ last.outcome = "loaded"
    /\ data # <<>>
    /\ \A k \in 1..Len(data) : {"level_group_id", "level_group"} \subseteq DOMAIN data[k]
    /\ used_level_groups # {}

\* C8: load_project of a snapshot without the record list (data) or without
\* next_id is rejected, and the record list, next_id, used-value sets and sort
\* state stay exactly as they were.
C8_IncompleteSnapshotRejected ==
    (/\ last.op = "load"
     /\ last.file.kind = "json"
     /\ ~({"data", "next_id"} \subseteq DOMAIN last.file.doc)) =>
        /\ last.outcome = "invalid"
        /\ Dataset = last.before

\* a snapshot with data and without next_id given to a session that holds
\* records, used values and a sort state
C8_Witness ==
    /\ last.op = "load"
    /\ last.file.kind = "json"
    /\ "data" \in DOMAIN last.file.doc
    /\ "next_id" \notin DOMAIN last.file.doc
    /\ last.before.data # <<>>
    /\ last.before.used_categories # {}
    /\ last.before.sort_column # None

\* C9: when load_project fails after the file is opened, for invalid JSON or a
\* used-value entry that set() cannot take, the record list, next_id,
\* used-value sets and sort state are all unchanged.
C9_FailedLoadLeavesDataset ==
    (last.op = "load" /\ last.outcome = "error") => Dataset = last.before

\* the Name of the row starts with one of the two required prefixes
HasRequiredPrefix(row) ==
    /\ Cell(row, "Name") # None
    /\ \/ StartsWith(Strip(Cell(row, "Name")[1]), "Relic: ")
       \/ StartsWith(Strip(Cell(row, "Name")[1]), "Character Relic: ")

\* C10: every row advances the id counter by one, accepted or skipped: the
\* rows without a required prefix give no record, the k-th row if accepted
\* gets id k, and after the n rows next_id = n + 1 and imported_count +
\* skipped_count = n.
C10_EveryRowAdvancesCounter ==
    (last.op = "import" /\ last.run.ok) =>
        LET rows == last.file.rows
            accepted == {k \in 1..Len(rows) : HasRequiredPrefix(rows[k])}
        IN /\ next_id = Len(rows) + 1
           /\ last.run.imported_count + last.run.skipped_count = Len(rows)
           /\ last.run.imported_count = Cardinality(accepted)
           /\ [k \in 1..Len(last.run.ingested) |-> last.run.ingested[k]["id"]]
                  = SortedInts(accepted)

\* an import in which a skipped row comes before an accepted one
C10_Witness ==
    /\ last.op = "import" /\ last.run.ok
    /\ \E k \in 1..Len(last.file.rows) :
           /\ ~HasRequiredPrefix(last.file.rows[k])
           /\ \E j \in (k + 1)..Len(last.file.rows) :
                  /\ HasRequiredPrefix(last.file.rows[j])
                  /\ \E r \in 1..Len(data) : data[r]["id"] = j

\* C11: an import wholly replaces the Dataset: whatever the state before it,
\* after import_csv the id counter has restarted from 1 for the new file (the
\* records hold ids of 1..n and next_id is n + 1 for the n rows of the file)
\* and each of the five used-value sets is empty.
C11_ImportResetsDataset ==
    (last.op = "import" /\ last.run.ok) =>
        /\ next_id = Len(last.file.rows) + 1
        /\ \A k \in 1..Len(data) : data[k]["id"] \in 1..Len(last.file.rows)
        /\ used_categories = {}
        /\ used_display_groups = {}
        /\ used_level_groups = {}
        /\ used_levels = {}
        /\ used_stacks = {}

\* the ints of the claim for a row: the trimmed values of the four id columns
\* that parse as an integer greater than 0
PositiveIds(row) ==
    {ParseInt(Strip(Cell(row, col)[1])).v :
        col \in {c \in Range(GameIdColumns) :
                    /\ ParseInt(Strip(Cell(row, c)[1])).ok
                    /\ ParseInt(Strip(Cell(row, c)[1])).v > 0}}

\* C12: for every row, the ingested gameIds are exactly the trimmed values of
\* the four id columns that parse as an integer greater than 0, deduplicated
\* and in ascending order.
C12_GameIdsArePositiveInts ==
    (last.op = "import" /\ last.run.ok) =>
        \A k \in 1..Len(last.run.ingested) :
            last.run.ingested[k]["gameIds"]
                = FormatGameIds(PositiveIds(last.file.rows[last.run.ingested[k]["id"]]))

\* the import ingested two records, one named "Wylder: Power Strike" and one
\* named "Power Strike +1", that share a gameId
PowerStrikePair ==
    /\ last.op = "import" /\ last.run.ok
    /\ Len(last.run.ingested) = 2
    /\ {last.run.ingested[1]["name"], last.run.ingested[2]["name"]}
           = {"Wylder: Power Strike", "Power Strike +1"}
    /\ parse_game_ids(last.run.ingested[1]["gameIds"])
           \cap parse_game_ids(last.run.ingested[2]["gameIds"]) # {}

\* the record of the pair that was ingested under name
PowerStrikeRecord(name) ==
    last.run.ingested[CHOOSE k \in 1..2 : last.run.ingested[k]["name"] = name]

\* C13 as stated: the two records are merged into a single record whose name
\* is "Power Strike +1" and whose gameIds is the union of both.
C13_MergedAsPowerStrikePlus ==
    PowerStrikePair =>
        /\ Len(last.run.merged) = 1
        /\ last.run.merged[1]["name"] = "Power Strike +1"
        /\ parse_game_ids(last.run.merged[1]["gameIds"])
               = GameIdsOf(last.run.ingested, {1, 2})

\* C13, amended: when the record ingested as "Wylder: Power Strike" has the
\* nightfarer of an allow column other than Wylder, the import leaves both
\* records, the first named "[Nightfarer] Wylder: Power Strike"; otherwise it
\* leaves a single record, the one with the lower id, whose gameIds is the
\* union of both and whose name is the longer of the two standardized names:
\* "[Wylder] Power Strike" when the record ingested as "Power Strike +1" has
\* no nightfarer, and "[Nightfarer] Power Strike +1" when it has one.
C13_MergedUnderLongerName ==
    PowerStrikePair =>
        LET wylder == PowerStrikeRecord("Wylder: Power Strike")
            plus == PowerStrikeRecord("Power Strike +1")
        IN IF wylder["nightfarer"] \notin {"", "Wylder"}
           THEN /\ Len(data) = 2
                /\ {<<data[k]["id"], data[k]["name"]>> : k \in 1..2}
                       = {<<wylder["id"],
                            "[" \o wylder["nightfarer"] \o "] Wylder: Power Strike">>,
                          <<plus["id"],
                            IF plus["nightfarer"] = "" THEN "Power Strike +1"
                            ELSE "[" \o plus["nightfarer"] \o "] Power Strike +1">>}
                /\ \A k \in 1..2 : data[k]["gameIds"] = last.run.ingested[k]["gameIds"]
           ELSE /\ Len(data) = 1
                /\ data[1]["id"] = last.run.ingested[1]["id"]
                /\ data[1]["id"] < last.run.ingested[2]["id"]
                /\ data[1]["name"] =
                       IF plus["nightfarer"] = "" THEN "[Wylder] Power Strike"
                       ELSE "[" \o plus["nightfarer"] \o "] Power Strike +1"
                /\ Len(data[1]["name"]) > 15
                /\ parse_game_ids(data[1]["gameIds"])
                       = GameIdsOf(last.run.ingested, {1, 2})

\* the pair imported with "Power Strike +1" first and no allow column, so
\* that the record kept takes its name from the other, and the union is
\* larger than either
C13_Witness ==
    /\ PowerStrikePair
    /\ last.run.ingested[1]["name"] = "Power Strike +1"
    /\ last.run.ingested[1]["nightfarer"] = "" /\ last.run.ingested[2]["nightfarer"] = ""
    /\ last.run.ingested[1]["gameIds"] # last.run.ingested[2]["gameIds"]
    /\ Len(data) = 1
    /\ data[1]["name"] = "[Wylder] Power Strike"

\* the positions of the merged list whose record has the trimmed name of the
\* record at position i
SameName(i) ==
    {j \in 1..Len(MergeInput) :
        Strip(Get(MergeInput[j], "name", "")) = Strip(Get(MergeInput[i], "name", ""))}

\* the position of the record with the lowest id among the positions S
LowestId(S) ==
    CHOOSE i \in S : \A j \in S : Get(MergeInput[i], "id", 0) <= Get(MergeInput[j], "id", 0)

\* C14 as stated: after merge_duplicate_names the Dataset holds one record per
\* name: no two surviving records have the same trimmed name, and for each
\* group of records that had the same trimmed name the survivor is the
\* group's lowest-id record.
C14_LowestIdSurvives ==
    /\ \A k, l \in 1..Len(MergeOutput) :
           Strip(Get(MergeOutput[k], "name", "")) = Strip(Get(MergeOutput[l], "name", ""))
               => k = l
    /\ \A i \in 1..Len(MergeInput) :
           Cardinality(SameName(i)) > 1 =>
               SameName(i) \cap Range(MergeLive) = {LowestId(SameName(i))}

\* C14, amended: after merge_duplicate_names no two surviving records have
\* the same trimmed name; of each group of records that had the same trimmed
\* name every record but the lowest-id one has been merged into the lowest-id
\* one and removed; and the lowest-id record survives unless the second pass
\* has merged it, a truncated variant, into a record of another name.
C14_OneRecordPerName ==
    /\ \A k, l \in 1..Len(MergeOutput) :
           Strip(Get(MergeOutput[k], "name", "")) = Strip(Get(MergeOutput[l], "name", ""))
               => k = l
    /\ \A i \in 1..Len(MergeInput) :
           i # LowestId(SameName(i)) =>
               /\ i \notin Range(MergeLive)
               /\ MergeParent[i] = LowestId(SameName(i))
    /\ \A i \in 1..Len(MergeInput) :
           (i = LowestId(SameName(i)) /\ i \notin Range(MergeLive)) =>
               /\ MergeParent[i] \in (1..Len(MergeInput)) \ SameName(i)
               /\ Get(MergeInput[i], "gameIds", "") # ""

\* a merge of two records of one name and different gameIds, in a list
\* that keeps a record of another name too, the lowest-id record of the pair
\* left in the list
C14_Witness ==
    /\ \E i \in 1..Len(MergeInput) :
           /\ Cardinality(SameName(i)) = 2
           /\ Len(MergeOutput) >= 2
           /\ LowestId(SameName(i)) \in Range(MergeLive)
           /\ Cardinality({Get(MergeInput[j], "gameIds", "") : j \in SameName(i)}) = 2

\* the records of a list, each as its id and its set of gameIds
Survivors(items) ==
    {<<Get(items[k], "id", 0), parse_game_ids(Get(items[k], "gameIds", ""))>> :
        k \in 1..Len(items)}

\* C15: for a fixed set of duplicate records, the result of
\* merge_duplicate_names does not depend on the order in which the records
\* appear in the Dataset: every ordering of the list leaves the same surviving
\* records with the same unioned gameIds.
C15_MergeOrderIndependent ==
    \A p \in Permutations(1..Len(MergeInput)) :
        Survivors(merge_duplicate_names([k \in 1..Len(MergeInput) |-> MergeInput[p[k]]]))
            = Survivors(MergeOutput)

\* C16: in every state reachable by any sequence of import, merge, auto-fill,
\* sort, cell edit, clear, and save and load of snapshots written by
\* save_project, no two records in the Dataset have the same id.
C16_IdsUnique ==
    \A k, l \in 1..Len(data) : data[k]["id"] = data[l]["id"] => k = l

\* the entry of a context menu chosen after an import that failed behind the
\* menu: the value set is one the menu no longer offers for the records the
\* failed import left, two of them
C16_Witness ==
    /\ last.op = "set"
    /\ last.value # ""
    /\ last.value \notin MenuValues(last.items, last.column_name, last.before)
    /\ Len(data) = 2
    /\ data[1]["id"] # data[2]["id"]
    /\ \E k \in 1..2 : data[k][last.column_name] = last.value

\* C17 as stated: ids are never reused in a session: an id value assigned to
\* a record by one import is never assigned to a different record by a later
\* import.
C17_IdsNeverReused ==
    last.op = "import" =>
        \A k \in 1..Len(data), l \in 1..Len(last.before.data) :
            data[k]["id"] = last.before.data[l]["id"] =>
                /\ data[k]["name"] = last.before.data[l]["name"]
                /\ data[k]["gameIds"] = last.before.data[l]["gameIds"]

\* C17, amended: every id in the Dataset is at least 1 and below next_id, and
\* clear_data leaves next_id as it is; but every import restarts the counter
\* at 1, whatever ids earlier imports assigned: the record it ingests from
\* row k of its file has the id k, so the ids of an import increase strictly
\* along the file, and next_id ends one above the number of rows read.
C17_IdsFreshBetweenImports ==
    /\ \A k \in 1..Len(data) : data[k]["id"] \in 1..(next_id - 1)
    /\ last.op = "clear" => next_id = last.before.next_id
    /\ last.op = "import" =>
           /\ \A k \in 1..Len(last.run.ingested) :
                  /\ last.run.ingested[k]["id"] \in 1..Len(last.file.rows)
                  /\ \E prefix \in {"Relic: ", "Character Relic: "} :
                         Cell(last.file.rows[last.run.ingested[k]["id"]], "Name")
                             = Some(prefix \o last.run.ingested[k]["name"])
           /\ \A k \in 1..(Len(last.run.ingested) - 1) :
                  last.run.ingested[k]["id"] < last.run.ingested[k + 1]["id"]
           /\ next_id = 1 + (IF last.file.error = None THEN Len(last.file.rows)
                             ELSE last.file.error[1])

\* an import into a Dataset that a clear had emptied, the counter standing
\* above 1: the import assigns the ids from 1 on again
C17_Witness ==
    /\ last.op = "import"
    /\ last.before.data = <<>>
    /\ last.before.next_id > 1
    /\ Len(data) >= 2
    /\ \E k \in 1..Len(data) : data[k]["id"] = 1

\* C18: row-level problems never abort ingestion: for every row the reader
\* yields, including a row with missing columns (absent values) or malformed
\* numeric or boolean fields, process_csv_row yields either a record with
\* safe defaults (level_group_id 0, booleans false) or a skip, and the import
\* continues with the next row, so that a file that is read to its end is
\* imported with every row counted.
C18_RowProblemsAbsorbed ==
    (last.op = "import" /\ last.file.error = None) =>
        /\ last.run.ok
        /\ last.run.imported_count + last.run.skipped_count = Len(last.file.rows)
        /\ \A k \in 1..Len(last.run.ingested) :
               LET row == last.file.rows[last.run.ingested[k]["id"]]
               IN /\ (\/ Cell(row, "attachFilterParamId") = None
                      \/ ~ParseInt(Cell(row, "attachFilterParamId")[1]).ok)
                         => last.run.ingested[k]["level_group_id"] = 0
                  /\ (\/ Cell(row, "isDebuff") = None
                      \/ Lower(Cell(row, "isDebuff")[1])
                             \notin {"true", "1", "yes", "on", "t", "y"})
                         => last.run.ingested[k]["debuff"] = FALSE

\* the keys of the claim for an exported record: every field of the record
\* but id, level_group_id and those with the empty string as value, with ids
\* in the place of a gameIds that holds ids
ExportedKeys(item) ==
    {key \in DOMAIN item \ {"id", "level_group_id", "gameIds"} :
        IF key \in {"deep", "debuff"} THEN TRUE
        ELSE IF key = "level" THEN item[key] # PyStr("")
        ELSE item[key] # ""}
    \cup (IF "gameIds" \in DOMAIN item /\ parse_game_ids(item["gameIds"]) # {}
          THEN {"ids"} ELSE {})

\* C19: export_json omits a field from an exported record only when the
\* field is id, level_group_id, has the empty string as value, or is a
\* gameIds with no ids; every other field appears, with stacks "Yes"/"No"
\* written as booleans, gameIds written as the sorted integer list ids, and
\* all remaining values unchanged, in Dataset order.
C19_ExportKeepsOtherFields ==
    (last.op = "export" /\ exported # None) =>
        /\ Len(exported[1]) = Len(data)
        /\ \A k \in 1..Len(data) :
               /\ DOMAIN exported[1][k] = ExportedKeys(data[k])
               /\ \A key \in DOMAIN exported[1][k] :
                      exported[1][k][key] =
                          IF key = "ids" THEN SortedInts(parse_game_ids(data[k]["gameIds"]))
                          ELSE IF key = "stacks" /\ data[k][key] \in {"Yes", "No"}
                          THEN data[k][key] = "Yes"
                          ELSE data[k][key]

\* the number of a name that ends in " +<digits>": Some(the number), None for
\* a name without such a suffix
SuffixNumber(name) ==
    LET D == {d \in 1..(Len(name) - 2) :
                 /\ \A i \in (Len(name) - d + 1)..Len(name) : IsDigit(Ch(name, i))
                 /\ SubSeq(name, Len(name) - d - 1, Len(name) - d) = " +"}
    IN IF D = {} THEN None
       ELSE Some(ParseInt(SubSeq(name, Len(name) - (CHOOSE d \in D : TRUE) + 1,
                                 Len(name))).v)

\* the positions of the merged list in the level group of the record at k
LevelGroupOf(k) ==
    {j \in 1..Len(last.run.merged) :
        last.run.merged[j]["level_group_id"] = last.run.merged[k]["level_group_id"]}

\* C20: for every level group of two or more records,
\* prefill_levels_for_level_group sets levels from the trailing " +<digits>"
\* suffix of each name: in a group that mixes names with and without a suffix
\* the records without get level 1 and the records with get the number + 1; in
\* a group where all names have a suffix each record gets the number; in a
\* group where none has, no level is written.
C20_LevelsFromSuffix ==
    (last.op = "import" /\ last.run.ok /\ last.run.imported_count > 0) =>
        \A k \in 1..Len(data) :
            Cardinality(LevelGroupOf(k)) >= 2 =>
                data[k]["level"] =
                    IF \A j \in LevelGroupOf(k) :
                           SuffixNumber(Strip(last.run.merged[j]["name"])) = None
                    THEN PyStr("")
                    ELSE IF \A j \in LevelGroupOf(k) :
                                SuffixNumber(Strip(last.run.merged[j]["name"])) # None
                    THEN PyInt(SuffixNumber(Strip(last.run.merged[k]["name"]))[1])
                    ELSE IF SuffixNumber(Strip(last.run.merged[k]["name"])) = None
                    THEN PyInt(1)
                    ELSE PyInt(SuffixNumber(Strip(last.run.merged[k]["name"]))[1] + 1)

\* the level group of "X", "X +1" and "X +2" imported: levels 1, 2 and 3
C20_Witness ==
    /\ last.op = "import" /\ last.run.ok
    /\ Len(data) = 3
    /\ [k \in 1..3 |-> data[k]["name"]] = <<"X", "X +1", "X +2">>
    /\ [k \in 1..3 |-> data[k]["level"]] = <<PyInt(1), PyInt(2), PyInt(3)>>

\* the position i is q or a position merged, directly or through others,
\* into q
RECURSIVE MergedUnder(_, _, _)
MergedUnder(parent, i, q) ==
    i = q \/ (parent[i] # 0 /\ MergedUnder(parent, parent[i], q))

\* C21: within one import the steps run in a fixed order.  The list the merge
\* went through holds every ingested record, each under its standardized
\* name (a record with a nightfarer has the tag of that nightfarer): no
\* record was merged before the names were standardized, for a record is
\* removed only into a record of the same standardized name or, as a
\* truncated variant, when the records merged under it share a gameId with
\* the others of the group.  The records the merge left have no level_group
\* and no level; the auto-fill changes nothing else of them and removes
\* none, and it writes a level_group or a level only to a record that still
\* has another record of its level_group_id after the merge.
C21_ImportStepsInOrder ==
    (last.op = "import" /\ last.run.ok /\ last.run.imported_count > 0) =>
        /\ Len(last.run.standardized) = Len(last.run.ingested)
        /\ \A k \in 1..Len(last.run.standardized) :
               /\ last.run.standardized[k]["id"] = last.run.ingested[k]["id"]
               /\ last.run.standardized[k]["nightfarer"] # "" =>
                      StartsWith(last.run.standardized[k]["name"],
                                 "[" \o last.run.standardized[k]["nightfarer"] \o "] ")
        /\ \A i \in 1..Len(last.run.standardized) :
               last.run.parent[i] # 0 =>
                   \/ Strip(last.run.standardized[i]["name"])
                          = Strip(last.run.standardized[last.run.parent[i]]["name"])
                   \/ \E j, l \in 1..Len(last.run.standardized) :
                          /\ MergedUnder(last.run.parent, j, i)
                          /\ ~MergedUnder(last.run.parent, l, i)
                          /\ Root(last.run.parent, l) = Root(last.run.parent, i)
                          /\ parse_game_ids(last.run.standardized[j]["gameIds"])
                                 \cap parse_game_ids(last.run.standardized[l]["gameIds"])
                                 # {}
        /\ \A k \in 1..Len(last.run.merged) :
               /\ last.run.merged[k]["level_group"] = ""
               /\ last.run.merged[k]["level"] = PyStr("")
        /\ Len(data) = Len(last.run.merged)
        /\ \A k \in 1..Len(data) :
               /\ \A key \in DOMAIN data[k] \ {"display_group", "category",
                                                "level_group", "level"} :
                      data[k][key] = last.run.merged[k][key]
               /\ (data[k]["level_group"] # "" \/ data[k]["level"] # PyStr("")) =>
                      \E l \in 1..Len(data) :
                          /\ l # k
                          /\ data[l]["level_group_id"] = data[k]["level_group_id"]

\* an import in which each step acted: a name was standardized, a record was
\* merged away and the auto-fill wrote a level group
C21_Witness ==
    /\ last.op = "import" /\ last.run.ok
    /\ last.run.standardized # last.run.ingested
    /\ Len(last.run.merged) < Len(last.run.standardized)
    /\ \E k \in 1..Len(data) : data[k]["level_group"] # ""

\* C22 as stated: for every pair of records merged as truncated variants by
\* merge_truncated_pair, in either argument order and whichever of the two
\* has the lower id, the surviving record is the lower-id record and its name
\* after the merge is the longer of the two names.
C22_SurvivorHasLongerName ==
    (/\ last.op = "merge_truncated_pair"
     /\ is_truncated_variant(last.items[1]["name"], last.items[2]["name"])
     /\ share_game_ids(last.items[1], last.items[2])) =>
        \E keep \in 1..2 :
            /\ \A k \in 1..2 : last.items[keep]["id"] <= last.items[k]["id"]
            /\ last.m.rem = <<3 - keep>>
            /\ last.m.items[keep]["id"] = last.items[keep]["id"]
            /\ \A k \in 1..2 :
                   Len(last.m.items[keep]["name"]) >= Len(last.items[k]["name"])
            /\ last.m.items[keep]["name"]
                   \in {last.items[1]["name"], last.items[2]["name"]}

\* C22, amended: for every pair of records merged as truncated variants by
\* merge_truncated_pair with the lower id in its first argument, the
\* surviving record is that lower-id record, the other is marked removed, and
\* the survivor's name after the merge is the longer of the two names,
\* whichever of the two had it; and the list an import hands to the merge
\* holds its records in strictly increasing id order, so that every pair
\* merge_truncated_names takes from it has the lower id first.
C22_LowerIdFirstKeepsLongerName ==
    /\ (/\ last.op = "merge_truncated_pair"
         /\ last.items[1]["id"] < last.items[2]["id"]
         /\ is_truncated_variant(last.items[1]["name"], last.items[2]["name"])
         /\ share_game_ids(last.items[1], last.items[2])) =>
            /\ last.m.rem = <<2>>
            /\ last.m.items[1]["id"] = last.items[1]["id"]
            /\ \A k \in 1..2 :
                   Len(last.m.items[1]["name"]) >= Len(last.items[k]["name"])
            /\ last.m.items[1]["name"]
                   \in {last.items[1]["name"], last.items[2]["name"]}
    /\ last.op = "import" =>
            \A k, l \in 1..Len(last.run.standardized) :
                k < l => last.run.standardized[k]["id"] < last.run.standardized[l]["id"]

\* a call with the lower id first and the longer name second, so that the
\* record kept takes the name of the record removed
C22_Witness ==
    /\ last.op = "merge_truncated_pair"
    /\ last.items[1]["id"] < last.items[2]["id"]
    /\ is_truncated_variant(last.items[1]["name"], last.items[2]["name"])
    /\ share_game_ids(last.items[1], last.items[2])
    /\ Len(last.items[2]["name"]) > Len(last.items[1]["name"])
    /\ last.m.items[1]["name"] = last.items[2]["name"]
    /\ last.m.rem = <<2>>

\* a name without its leading "[Nightfarer] "
Unbracketed(name) ==
    IF \E nf \in Range(NightfarerNames) : StartsWith(name, "[" \o nf \o "] ")
    THEN From(name, Len(CHOOSE nf \in Range(NightfarerNames) :
                            StartsWith(name, "[" \o nf \o "] ")) + 3)
    ELSE name

\* C25: is_truncated_variant judges two bracket-stripped names to be variants
\* whenever one is a prefix of the other and the length of the longer one is
\* at least 1.5 times the length of the shorter one, exactly 1.5 times included.
C25_HalfLongerIsVariant ==
    (/\ last.op = "is_truncated_variant"
     /\ \E pair \in {<<last.name1, last.name2>>, <<last.name2, last.name1>>} :
            /\ StartsWith(Unbracketed(pair[1]), Unbracketed(pair[2]))
            /\ 2 * Len(Unbracketed(pair[1])) >= 3 * Len(Unbracketed(pair[2]))) =>
        last.result = TRUE

\* C23: after a completed import no record name in the Dataset contains the
\* substring "- " (hyphen, space): every occurrence has been replaced by ", ",
\* whether or not a faction pattern matched the name and whether or not the
\* record has a nightfarer.
C23_NoHyphenSpace ==
    (last.op = "import" /\ last.run.ok) =>
        \A k \in 1..Len(data) : ~Contains(data[k]["name"], "- ")

\* C24: migration is a pure key rename that alters no value: for every
\* snapshot, one in which a record carries both a legacy key and its
\* current-named counterpart included, every value stored under a current key
\* (level_group_id, level_group, used_level_groups) before
\* migrate_project_data is stored unchanged under that key afterwards, and
\* applying the migration to its own output changes nothing.
C24_MigrationKeepsCurrentValues ==
    last.op = "migrate_project_data" =>
        /\ "used_level_groups" \in DOMAIN last.project_data =>
               last.result.project_data["used_level_groups"]
                   = last.project_data["used_level_groups"]
        /\ \A i \in 1..Len(last.project_data["data"]) :
               \A key \in {"level_group_id", "level_group"}
                              \cap DOMAIN last.project_data["data"][i] :
                   last.result.project_data["data"][i][key]
                       = last.project_data["data"][i][key]
        /\ migrate_project_data(last.result.project_data).project_data
               = last.result.project_data

\* the row has a Name that is a required prefix and nothing after it
BarePrefix(row) ==
    /\ row["Name"] # None
    /\ Strip(row["Name"][1]) \in {"Relic:", "Character Relic:"}

\* C26: every record in the Dataset after an import has a non-empty name: a
\* row whose Name is only a required prefix with nothing after it produces no
\* record, and neither standardization nor merging leaves a record with an
\* empty name.
C26_NamesNonEmpty ==
    (last.op = "import" /\ last.run.ok) =>
        /\ \A k \in 1..Len(last.file.rows) :
               BarePrefix(last.file.rows[k]) =>
                   \A j \in 1..Len(last.run.ingested) : last.run.ingested[j]["id"] # k
        /\ \A k \in 1..Len(last.run.ingested) : last.run.ingested[k]["name"] # ""
        /\ \A k \in 1..Len(last.run.standardized) :
               Strip(last.run.standardized[k]["name"]) # ""
        /\ \A k \in 1..Len(data) : Strip(data[k]["name"]) # ""

\* an import of a row that is only a prefix, skipped, and of a row whose name
\* the standardization rewrote
C26_Witness ==
    /\ last.op = "import" /\ last.run.ok
    /\ \E k \in 1..Len(last.file.rows) : BarePrefix(last.file.rows[k])
    /\ last.run.skipped_count = 1
    /\ Len(data) = 1
    /\ last.run.standardized # last.run.ingested

\* C27: in every state reachable by import, clear, sort, cell edits, and save
\* and load of the snapshots save_project wrote, next_id is strictly greater
\* than the id of every record in the Dataset.
C27_NextIdAboveIds ==
    \A k \in 1..Len(data) : data[k]["id"] < next_id

\* a cell edited from the dialog of a menu that was built before an import
\* failed after one of its rows: the menu was built on two rows, the edit
\* reaches the one record the failed import left in the Dataset, and next_id
\* is the 2 that import left
C27_Witness ==
    /\ last.op = "edit"
    /\ Cardinality(last.items) = 2
    /\ Len(last.before.data) = 1
    /\ Len(data) = 1 /\ data[1]["id"] = 1
    /\ data[1][last.column_name] = Strip(last.value)
    /\ next_id = 2

\* C28: sort_by_column only permutes the records and moves two variables: with
\* the column that is already the sort column it flips sort_reverse, with
\* another column it sets that column and sort_reverse = false, and in both
\* cases the Dataset holds the same records afterwards (same contents, none
\* added or lost) with next_id and the used-value sets unchanged.
C28_SortOnlyPermutes ==
    last.op = "sort" =>
        /\ sort_column = Some(last.column)
        /\ sort_reverse = IF last.before.sort_column = Some(last.column)
                          THEN ~last.before.sort_reverse ELSE FALSE
        /\ Len(data) = Len(last.before.data)
        /\ \A r \in Range(data) \cup Range(last.before.data) :
               Cardinality({k \in 1..Len(data) : data[k] = r})
                   = Cardinality({k \in 1..Len(data) : last.before.data[k] = r})
        /\ [Dataset EXCEPT !.data = <<>>, !.sort_column = None, !.sort_reverse = FALSE]
               = [last.before EXCEPT !.data = <<>>, !.sort_column = None,
                                     !.sort_reverse = FALSE]

\* the sort column clicked again: the direction flipped to descending and
\* the records changed places
C28_Witness ==
    /\ last.op = "sort"
    /\ last.before.sort_column = Some(last.column)
    /\ sort_reverse /\ ~last.before.sort_reverse
    /\ Len(data) >= 2
    /\ data # last.before.data

\* C29: a confirmed clear_data empties only the record list: next_id, the five
\* used-value sets and the sort column and direction keep the values they had
\* before the clear, and a declined confirmation or an already-empty Dataset
\* changes nothing at all.
C29_ClearEmptiesOnlyRecords ==
    last.op = "clear" =>
        IF last.result /\ last.before.data # <<>>
        THEN /\ data = <<>>
             /\ [Dataset EXCEPT !.data = last.before.data] = last.before
        ELSE Dataset = last.before

\* a confirmed clear of a Dataset with records, a counter above 1, used
\* values and a sort column
C29_Witness ==
    /\ last.op = "clear" /\ last.result
    /\ last.before.data # <<>> /\ data = <<>>
    /\ next_id > 1
    /\ used_categories # {} /\ used_level_groups # {}
    /\ sort_column # None /\ sort_reverse

\* the tag a name starts with: Some(the text between "[" and the first "]",
\* without the whitespace around it), None for a name that does not start
\* with "[" or has no "]"
BracketedTag(name) ==
    IF StartsWith(Strip(name), "[") /\ Contains(Strip(name), "]")
    THEN Some(Strip(SubSeq(Strip(name), 2, Find(Strip(name), "]"))))
    ELSE None

\* C30: after an import that accepted at least one row, every record with
\* debuff = true has category "Debuff" and every record whose name starts with
\* a bracketed tag "[T]" (T some text, a pair of brackets around nothing being
\* no tag) has display_group T: the two fields are not unset for such records
\* although no user edited them.
C30_DebuffAndTagPrefilled ==
    (last.op = "import" /\ last.run.ok /\ last.run.imported_count > 0) =>
        \A k \in 1..Len(data) :
            /\ data[k]["debuff"] => data[k]["category"] = "Debuff"
            /\ BracketedTag(data[k]["name"]) \notin {None, Some("")} =>
                   data[k]["display_group"] = BracketedTag(data[k]["name"])[1]

\* an import that left a debuff record under a faction tag and a record whose
\* tag names no faction, both filled
C30_Witness ==
    /\ last.op = "import" /\ last.run.ok
    /\ \E k \in 1..Len(data) :
           /\ data[k]["debuff"] /\ data[k]["category"] = "Debuff"
           /\ data[k]["name"] = "[Raider] c d" /\ data[k]["display_group"] = "Raider"
    /\ \E k \in 1..Len(data) :
           data[k]["name"] = "[ ab ] c" /\ data[k]["display_group"] = "ab"

=============================================================================
